---- MODULE Spec2Model ----
(***************************************************************************)
(* Model of the AXS capture-and-price pipeline (src/src/scrape.js,          *)
(* src/src/parse_tickets.js).                                              *)
(*                                                                         *)
(* scrapeAxsTickets is an async function: pc is the await it is suspended  *)
(* at, and every action is the synchronous stretch of code that runs from  *)
(* one await to the next.  The page-level and the CDP response handlers    *)
(* run concurrently with it; each is one action (the stretch after the     *)
(* body has been read).  Time is the elapsed time since startTime, in      *)
(* seconds.                                                                *)
(***************************************************************************)
EXTENDS Integers, Sequences, FiniteSets, TLC

VARIABLES
    env,                 \* what the remote side does in this run (fixed)
    pc,                  \* await at which scrapeAxsTickets is suspended
    now,                 \* Date.now() - startTime, in seconds
    browser,             \* local variable browser: "null" or "handle"
    page,                \* local variable page: "null" or "handle"
    connectCalls,        \* number of puppeteer.connect calls
    lateConnect,         \* the connect promise that lost the race
    respListener,        \* page.on('response', ...) attached
    cdpSetup,            \* setupCDPNetworkMonitoring: "pending", "ok", "failed"
    found,               \* targetEndpoints[k].found
    capturedResponses,   \* Map filename -> stored value ("absent" = no key)
    inventoryResponses,  \* Map url -> raw text ("absent" = no key)
    allResponsesCaptured,\* allResponsesCapturedPromise is resolved
    captchaRetries,      \* local variable captchaRetries
    attempts,            \* captcha attempts started
    captchaListener,     \* addCaptchaListener of the current attempt
    preFlowHandlers,     \* attached pre-flow 'request' handlers
    captchaClients,      \* CDP sessions with captcha listeners attached
    solvedBy,            \* what resolved the captcha race
    modal,               \* '.modal-header h1#title' as last found on the page
    blockedLog,          \* where "Scraper has been blocked" was logged
    phase,               \* current phase and the elapsed time at its start
    lastOp,              \* page operation started last, and its phase
    refreshLog,          \* refresh strategies carried out, in order
    finalTimeout,        \* timeout of the post-refresh capture wait
    finalRemaining,      \* budget remaining when that wait started
    pricingCalls,        \* calls of parseAXSTickets
    closeLog,            \* close calls, in order: "browser" / "page"
    err,                 \* class of the error thrown
    errMsg,              \* which throw site raised it
    result,              \* "none", "tickets", "thrown"
    mPattern,            \* pattern handed to the pattern match
    mUrl,                \* URL handed to the pattern match
    mChannel,            \* handler that ran the match: "page" / "cdp"
    mResult,             \* const matches (FALSE before the match ran)
    gSeats,              \* selectedSeats handed to the group scan, sorted
    gDone,               \* the group scan has run
    gBest,               \* bestGroup after the scan
    axsResults,          \* argument of parseAXSTickets
    epc,                 \* position of parseAXSTickets
    priceLevelsMap,      \* const priceLevelsMap
    sectionRowPriceSeats,\* the section-row groups, in insertion order
    rowIndex,            \* position of the second pass in them
    tickets,             \* const tickets
    calls,               \* calls of parseAXSTickets that returned
    firstTickets         \* what the first call returned

scrapeVars == << env, pc, now, browser, page, connectCalls, lateConnect, respListener,
           cdpSetup, found, capturedResponses, inventoryResponses,
           allResponsesCaptured, captchaRetries, attempts,
           captchaListener, preFlowHandlers, captchaClients, solvedBy, modal,
           blockedLog, phase, lastOp, refreshLog, finalTimeout,
           finalRemaining, pricingCalls, closeLog, err, errMsg, result >>

matchVars == << mPattern, mUrl, mChannel, mResult >>

\* State of the pure computations, which scrapeAxsTickets leaves alone.
groupVars == << gSeats, gDone, gBest >>

engineVars == << axsResults, epc, priceLevelsMap, sectionRowPriceSeats,
                rowIndex, tickets, calls, firstTickets >>

pureVars == << matchVars, groupVars, engineVars >>

vars == << scrapeVars, pureVars >>

captureVars == << found, capturedResponses, inventoryResponses,
                  allResponsesCaptured >>

gateVars == << captchaRetries, attempts, captchaListener, preFlowHandlers,
               captchaClients, solvedBy >>

refreshVars == << refreshLog, finalTimeout, finalRemaining >>

(***************************************************************************)
(* Program constants (seconds).                                            *)
(***************************************************************************)
MAX_SESSION_TIME == 300
CAPTCHA_TIMEOUT == 60
\* Variant: one retry more than the program allows.
maxCaptchaRetries_Four == 3 + 1

maxCaptchaRetries == 3
ConnectTimeout == 15
GotoTimeout == 30
ReloadTimeout == 30
ReloadSettle == 2
ShortCaptureTimeout == 10
TimeoutBuffer == 5
MinDataTimeout == 10
HeaderTimeout == 5
SelectorTimeout == 3

(***************************************************************************)
(* Bounds of the model.                                                    *)
(***************************************************************************)
MaxClock == 600       \* elapsed time is not followed beyond this
LongStall == 295      \* duration of a page operation that stalls

Max(a, b) == IF a >= b THEN a ELSE b

(***************************************************************************)
(* The remote side.  A run is explored with browser operations of varied   *)
(* duration (EnvTiming), or with browser operations that fail (EnvFaults), *)
(* or with varied response payloads (EnvPayload), or with one kind of      *)
(* browser operation that never settles (EnvHangs).  The timers of the     *)
(* program run in all of them.                                             *)
(***************************************************************************)
EnvTiming == [slow |-> TRUE, faults |-> FALSE, payloads |-> "plain",
              hangs |-> "none"]
EnvFaults == [slow |-> FALSE, faults |-> TRUE, payloads |-> "plain",
              hangs |-> "none"]
EnvPayload == [slow |-> FALSE, faults |-> FALSE, payloads |-> "varied",
               hangs |-> "none"]
Envs == {EnvTiming, EnvFaults, EnvPayload}

\* Browser operations whose promise may stay pending for ever: connect,
\* browser.newPage, the CDP set-up, page.goto, the element queries on the
\* page (page.$, page.$$, evaluate), and page.close / browser.close.
HangOps == {"connect", "newPage", "cdpSetup", "goto", "query", "close"}

EnvHangs(op) == [slow |-> FALSE, faults |-> FALSE, payloads |-> "plain",
                 hangs |-> op]

\* The promise of operation op never settles in this run.
Hangs(op) == env.hangs = op

\* Durations of an operation that completes within a timeout of T seconds.
Within(T) == IF env.slow THEN {0, T - 1} ELSE {0}

\* Durations of an operation that has no timeout of its own.
Unbounded == IF env.slow THEN {0, LongStall} ELSE {0}

\* Outcomes of an operation whose failure the code recovers from: whether
\* it succeeded (Oks), whether it threw (Throws).
Oks == IF env.faults THEN BOOLEAN ELSE {TRUE}
Throws == IF env.faults THEN BOOLEAN ELSE {FALSE}

(***************************************************************************)
(* Errors.                                                                 *)
(***************************************************************************)
ErrorClasses == {"ScraperBlockedError", "CaptchaTimeoutError",
                 "BrowserConnectionError", "DataCaptureError"}

\* Variant: BrowserConnectionError carrying needsSessionClose = true.
needsSessionClose_Always(e) == TRUE

\* needsSessionClose as the catch block computes it (an error without the
\* field counts as true).
needsSessionClose(e) == IF e = "BrowserConnectionError" THEN FALSE ELSE TRUE

\* Variant: a budget check that never throws.
checkSessionTimeout_Never(t) == FALSE

\* checkSessionTimeout throws when this holds of the elapsed time t.
checkSessionTimeout(t) == t > MAX_SESSION_TIME

(***************************************************************************)
(* URLs and patterns are sequences of tokens; "*" is the wildcard.         *)
(***************************************************************************)
Keys == {"sections", "offer_search", "price"}

targetEndpoints ==
    << [pattern |-> <<"/veritix/inventory/V2/", "*", "/sections">>,
        filename |-> "sections"],
       [pattern |-> <<"/veritix/inventory/V2/", "*", "/offer/search">>,
        filename |-> "offer_search"],
       [pattern |-> <<"/veritix/inventory/v4/", "*", "/price">>,
        filename |-> "price"] >>

InventoryTokens == {"/veritix/inventory/V2/", "/veritix/inventory/v4/"}

UrlSections == <<"/veritix/inventory/V2/", "123", "/sections">>
UrlOffer == <<"/veritix/inventory/V2/", "123", "/offer/search">>
UrlPrice == <<"/veritix/inventory/v4/", "123", "/price">>
UrlOther == <<"/veritix/inventory/V2/", "123", "/seats">>
UrlForeign == <<"/static/", "app.js">>

Urls == {UrlSections, UrlOffer, UrlPrice, UrlOther, UrlForeign}

RECURSIVE split(_, _)
split(s, sep) ==
    IF \A i \in 1..Len(s) : s[i] # sep
    THEN << s >>
    ELSE LET i == CHOOSE j \in 1..Len(s) :
                      s[j] = sep /\ \A k \in 1..(j - 1) : s[k] # sep
         IN  << SubSeq(s, 1, i - 1) >> \o split(SubSeq(s, i + 1, Len(s)), sep)

includes(url, part) ==
    \E i \in 1..(Len(url) + 1) :
        /\ i + Len(part) - 1 <= Len(url)
        /\ SubSeq(url, i, i + Len(part) - 1) = part

isInventoryUrl(url) == \E i \in 1..Len(url) : url[i] \in InventoryTokens

matches(pattern, url) ==
    LET patternParts == split(pattern, "*")
    IN  \A p \in 1..Len(patternParts) : includes(url, patternParts[p])

\* Index of the first target whose pattern matches, 0 if none (for ... break).
firstMatch(url) ==
    IF \E t \in 1..Len(targetEndpoints) : matches(targetEndpoints[t].pattern, url)
    THEN CHOOSE t \in 1..Len(targetEndpoints) :
            /\ matches(targetEndpoints[t].pattern, url)
            /\ \A u \in 1..(t - 1) : ~matches(targetEndpoints[u].pattern, url)
    ELSE 0

(***************************************************************************)
(* Response bodies: a JSON object, text that is not JSON, and the empty    *)
(* string.                                                                 *)
(***************************************************************************)
Bodies == {"json", "text", "empty"}

\* JSON.parse: ok = FALSE when it throws.
JSONparse(body) ==
    IF body = "json" THEN [ok |-> TRUE, val |-> "object"]
                     ELSE [ok |-> FALSE, val |-> "none"]

\* The raw text as stored by capturedResponses.set(filename, responseText).
rawValue(body) == IF body = "empty" THEN "rawEmpty" ELSE "rawText"

\* JavaScript truthiness of a stored value (result.sections && ...).
truthy(v) == v \in {"object", "rawText"}

\* What the site serves in this run; "unreadable" is a body that cannot be
\* read (response.text() or Network.getResponseBody rejects).
TargetUrls == {UrlSections, UrlOffer, UrlPrice}

Response(u, s, b) == [url |-> u, status |-> s, body |-> b]

Served ==
    IF env.payloads = "varied"
    THEN {Response(u, 200, b) : u \in TargetUrls, b \in Bodies \cup {"unreadable"}}
         \cup {Response(UrlOther, 200, "json"), Response(UrlForeign, 200, "json"),
               Response(UrlSections, 404, "json")}
    ELSE {Response(u, 200, "json") : u \in TargetUrls}

allFound(f) == \A k \in Keys : f[k]

\* Variant: the loop records the response under every target instead of
\* under the first one whose pattern matches.
recordResponse_EveryTarget(url, body) ==
    LET parsed == JSONparse(body)
        val == IF parsed.ok THEN parsed.val ELSE rawValue(body)
    IN  /\ inventoryResponses' = [inventoryResponses EXCEPT ![url] = body]
        /\ found' = [k \in Keys |-> TRUE]
        /\ capturedResponses' = [k \in Keys |-> val]
        /\ allResponsesCaptured' = (allResponsesCaptured \/ parsed.ok)

\* Variant: a key that is already filled keeps its value.
recordResponse_FirstWriteWins(url, body) ==
    LET t == firstMatch(url)
        key == targetEndpoints[t].filename
        parsed == JSONparse(body)
        found2 == [found EXCEPT ![key] = TRUE]
    IN  /\ inventoryResponses' = [inventoryResponses EXCEPT ![url] = body]
        /\ IF t = 0
           THEN UNCHANGED << found, capturedResponses, allResponsesCaptured >>
           ELSE /\ found' = found2
                /\ capturedResponses' =
                       IF capturedResponses[key] # "absent"
                       THEN capturedResponses
                       ELSE [capturedResponses EXCEPT
                                ![key] = IF parsed.ok THEN parsed.val
                                                      ELSE rawValue(body)]
                /\ allResponsesCaptured' =
                       (allResponsesCaptured \/ (parsed.ok /\ allFound(found2)))

\* The synchronous stretch both handlers share: store the raw text, match
\* the targets in order, record the first match.
recordResponse(url, body) ==
    LET t == firstMatch(url)
        key == targetEndpoints[t].filename
        parsed == JSONparse(body)
        found2 == [found EXCEPT ![key] = TRUE]
    IN  /\ inventoryResponses' = [inventoryResponses EXCEPT ![url] = body]
        /\ IF t = 0
           THEN UNCHANGED << found, capturedResponses, allResponsesCaptured >>
           ELSE /\ found' = found2
                /\ IF parsed.ok
                   THEN /\ capturedResponses' =
                               [capturedResponses EXCEPT ![key] = parsed.val]
                        /\ allResponsesCaptured' =
                               (allResponsesCaptured \/ allFound(found2))
                   ELSE /\ capturedResponses' =
                               [capturedResponses EXCEPT ![key] = rawValue(body)]
                        /\ UNCHANGED allResponsesCaptured

\* The page is loading or loaded: scrapeAxsTickets is suspended between the
\* call of page.goto and the catch / finally blocks (which run in the same
\* synchronous stretch as the throw or return that enters them).
LivePcs == {"goto", "captchaWait", "modalCheck", "reload", "capture1",
            "headerWait", "refreshModal", "refreshPrimary", "refreshByText",
            "refreshReload", "capture2", "parse"}

pageLive == page = "handle" /\ pc \in LivePcs

\* responseHandler, from the point where response.text() has settled.
responseHandler ==
    /\ respListener
    /\ pageLive
    /\ \E r \in Served :
          IF ~isInventoryUrl(r.url) \/ r.status # 200
             \/ r.body \in {"unreadable", "empty"}
          THEN UNCHANGED captureVars
          ELSE recordResponse(r.url, r.body)
    /\ UNCHANGED << env, pureVars, pc, now, browser, page, connectCalls, lateConnect,
                    respListener, cdpSetup, gateVars, modal, blockedLog,
                    phase, lastOp, refreshVars, pricingCalls, closeLog, err,
                    errMsg, result >>

\* The Network.responseReceived handler, from the point where
\* Network.getResponseBody has settled.
cdpResponseHandler ==
    /\ cdpSetup = "ok"
    /\ pageLive
    /\ \E r \in Served :
          IF ~isInventoryUrl(r.url) \/ r.status # 200 \/ r.body = "unreadable"
          THEN UNCHANGED captureVars
          ELSE recordResponse(r.url, r.body)
    /\ UNCHANGED << env, pureVars, pc, now, browser, page, connectCalls, lateConnect,
                    respListener, cdpSetup, gateVars, modal, blockedLog,
                    phase, lastOp, refreshVars, pricingCalls, closeLog, err,
                    errMsg, result >>

(***************************************************************************)
(* scrapeAxsTickets.                                                       *)
(***************************************************************************)
NoOp == [op |-> "none", phase |-> "setup", start |-> 0]

\* The state in which no pattern match has run.
MatchIdle ==
    /\ mPattern = << >>
    /\ mUrl = << >>
    /\ mChannel = "none"
    /\ mResult = FALSE

\* The state in which no group scan has run.
GroupIdle ==
    /\ gSeats = << >>
    /\ gDone = FALSE
    /\ gBest = << >>

\* The state in which parseAXSTickets has not been called.
EngineIdle ==
    /\ axsResults = << >>
    /\ epc = "idle"
    /\ priceLevelsMap = << >>
    /\ sectionRowPriceSeats = << >>
    /\ rowIndex = 0
    /\ tickets = << >>
    /\ calls = 0
    /\ firstTickets = << >>

PureIdle == MatchIdle /\ GroupIdle /\ EngineIdle

\* The state at the call of scrapeAxsTickets.
ScrapeStart ==
    /\ pc = "start"
    /\ now = 0
    /\ browser = "null"
    /\ page = "null"
    /\ connectCalls = 0
    /\ lateConnect = "none"
    /\ respListener = FALSE
    /\ cdpSetup = "pending"
    /\ found = [k \in Keys |-> FALSE]
    /\ capturedResponses = [k \in Keys |-> "absent"]
    /\ inventoryResponses = [u \in Urls |-> "absent"]
    /\ allResponsesCaptured = FALSE
    /\ captchaRetries = 0
    /\ attempts = 0
    /\ captchaListener = "none"
    /\ preFlowHandlers = 0
    /\ captchaClients = 0
    /\ solvedBy = "none"
    /\ modal = "none"
    /\ blockedLog = "none"
    /\ phase = [name |-> "setup", start |-> 0]
    /\ lastOp = NoOp
    /\ refreshLog = << >>
    /\ finalTimeout = 0
    /\ finalRemaining = 0
    /\ pricingCalls = 0
    /\ closeLog = << >>
    /\ err = "none"
    /\ errMsg = "none"
    /\ result = "none"

ScrapeInit == env \in Envs /\ ScrapeStart

Init == ScrapeInit /\ PureIdle

Advance(d) == now + d <= MaxClock /\ now' = now + d

\* throw new <e>(...) inside the try block: control goes to the catch block.
Throw(e, m) == err' = e /\ errMsg' = m /\ pc' = "catch"

NoThrow == UNCHANGED << err, errMsg >>

Op(name) == [op |-> name, phase |-> phase.name, start |-> phase.start]

\* initBrowser up to the Promise.race: puppeteer.connect is called once.
InitBrowser ==
    /\ pc = "start"
    /\ connectCalls' = connectCalls + 1
    /\ pc' = "connect"
    /\ UNCHANGED << env, pureVars, now, browser, page, lateConnect, respListener, cdpSetup,
                    captureVars, gateVars, modal, blockedLog,
                    phase, lastOp, refreshVars, pricingCalls, closeLog, err,
                    errMsg, result >>

\* The connect promise wins the race: browser = await initBrowser().
InitBrowserConnected ==
    /\ pc = "connect"
    /\ ~Hangs("connect")
    /\ Advance(0)
    /\ browser' = "handle"
    /\ pc' = "newPage"
    /\ UNCHANGED << env, pureVars, page, connectCalls, lateConnect, respListener, cdpSetup,
                    captureVars, gateVars, modal, blockedLog,
                    phase, lastOp, refreshVars, pricingCalls, closeLog, err,
                    errMsg, result >>

\* puppeteer.connect rejects: wrapped as BrowserConnectionError.
InitBrowserRejected ==
    /\ pc = "connect"
    /\ ~Hangs("connect")
    /\ Advance(0)
    /\ Throw("BrowserConnectionError", "connectFailed")
    /\ UNCHANGED << env, pureVars, browser, page, connectCalls, lateConnect, respListener,
                    cdpSetup, captureVars, gateVars, modal,
                    blockedLog, phase, lastOp, refreshVars, pricingCalls,
                    closeLog, result >>

\* The 15 s timer wins the race; the connect promise stays pending.
InitBrowserTimeout ==
    /\ pc = "connect"
    /\ Advance(ConnectTimeout)
    /\ lateConnect' = "pending"
    /\ Throw("BrowserConnectionError", "connectTimeout")
    /\ UNCHANGED << env, pureVars, browser, page, connectCalls, respListener, cdpSetup,
                    captureVars, gateVars, modal, blockedLog,
                    phase, lastOp, refreshVars, pricingCalls, closeLog,
                    result >>

\* The connect promise that lost the race resolves; nothing holds its value.
LateConnect ==
    /\ lateConnect = "pending"
    /\ ~Hangs("connect")
    /\ lateConnect' = "established"
    /\ UNCHANGED << env, pureVars, pc, now, browser, page, connectCalls, respListener,
                    cdpSetup, captureVars, gateVars, modal,
                    blockedLog, phase, lastOp, refreshVars, pricingCalls,
                    closeLog, err, errMsg, result >>

\* Variant: the 'response' listener is not attached before navigation.
NewPage_NoListener ==
    /\ pc = "newPage"
    /\ ~Hangs("newPage")
    /\ \E d \in Unbounded : Advance(d)
    /\ page' = "handle"
    /\ pc' = "cdpSetup"
    /\ UNCHANGED << env, pureVars, browser, connectCalls, lateConnect, respListener,
                    cdpSetup, captureVars, gateVars, modal, blockedLog,
                    phase, lastOp, refreshVars, pricingCalls, closeLog, err,
                    errMsg, result >>

\* page = await browser.newPage(); then the 'response' and 'request'
\* listeners are attached and setupCDPNetworkMonitoring is called.
NewPage ==
    /\ pc = "newPage"
    /\ ~Hangs("newPage")
    /\ \E d \in Unbounded : Advance(d)
    /\ \E ok \in BOOLEAN :
          IF ok
          THEN /\ page' = "handle"
               /\ respListener' = TRUE
               /\ pc' = "cdpSetup"
               /\ NoThrow
          ELSE /\ Throw("Error", "newPage")
               /\ UNCHANGED << env, pureVars, page, respListener >>
    /\ UNCHANGED << env, pureVars, browser, connectCalls, lateConnect, cdpSetup,
                    captureVars, gateVars, modal, blockedLog,
                    phase, lastOp, refreshVars, pricingCalls, closeLog,
                    result >>

\* await setupCDPNetworkMonitoring() (a failure is logged and swallowed),
\* then checkSessionTimeout() and the call of page.goto.
SetupCDPNetworkMonitoring ==
    /\ pc = "cdpSetup"
    /\ ~Hangs("cdpSetup")
    /\ \E d \in Unbounded : Advance(d)
    /\ \E ok \in Oks : cdpSetup' = IF ok THEN "ok" ELSE "failed"
    /\ phase' = [name |-> "navigation", start |-> now']
    /\ IF checkSessionTimeout(now')
       THEN /\ Throw("DataCaptureError", "sessionTimeout")
            /\ UNCHANGED lastOp
       ELSE /\ pc' = "goto"
            /\ lastOp' = [op |-> "goto", phase |-> "navigation", start |-> now']
            /\ NoThrow
    /\ UNCHANGED << env, pureVars, browser, page, connectCalls, lateConnect, respListener,
                    captureVars, gateVars, modal, blockedLog,
                    refreshVars, pricingCalls, closeLog, result >>

Modals == IF env.faults THEN {"none", "other", "blocked"} ELSE {"none"}

\* Head of the while loop at elapsed time t: checkSessionTimeout(), then the
\* pre-flow 'request' handler and addCaptchaListener of the new attempt.
BeginAttempt(t) ==
    /\ phase' = [name |-> "captcha", start |-> t]
    /\ IF checkSessionTimeout(t)
       THEN /\ Throw("DataCaptureError", "sessionTimeout")
            /\ UNCHANGED << lastOp, attempts, captchaListener,
                            preFlowHandlers, captchaClients >>
       ELSE /\ pc' = "captchaWait"
            /\ lastOp' = [op |-> "captchaWait", phase |-> "captcha", start |-> t]
            /\ attempts' = attempts + 1
            /\ preFlowHandlers' = preFlowHandlers + 1
            /\ \E ok \in Oks :
                  /\ captchaListener' = IF ok THEN "attached" ELSE "failed"
                  /\ captchaClients' = IF ok THEN captchaClients + 1
                                             ELSE captchaClients
            /\ NoThrow

\* page.goto resolves; the retry loop is entered.
GotoDone ==
    /\ pc = "goto"
    /\ ~Hangs("goto")
    /\ \E d \in Within(GotoTimeout) : Advance(d)
    /\ captchaRetries' = 0
    /\ BeginAttempt(now')
    /\ UNCHANGED << env, pureVars, browser, page, connectCalls, lateConnect, respListener,
                    cdpSetup, captureVars, solvedBy, modal, blockedLog,
                    refreshVars, pricingCalls, closeLog, result >>

\* Variant: the navigation error is thrown on as it is, not wrapped.
GotoFailed_Unwrapped ==
    /\ pc = "goto"
    /\ Advance(GotoTimeout)
    /\ Throw("Error", "navigation")
    /\ UNCHANGED << env, pureVars, browser, page, connectCalls, lateConnect, respListener,
                    cdpSetup, captureVars, gateVars, modal,
                    blockedLog, phase, lastOp, refreshVars, pricingCalls,
                    closeLog, result >>

\* page.goto rejects (navigation error or its 30 s timeout).
GotoFailed ==
    /\ pc = "goto"
    /\ Advance(GotoTimeout)
    /\ Throw("DataCaptureError", "navigation")
    /\ UNCHANGED << env, pureVars, browser, page, connectCalls, lateConnect, respListener,
                    cdpSetup, captureVars, gateVars, modal,
                    blockedLog, phase, lastOp, refreshVars, pricingCalls,
                    closeLog, result >>

\* "Captcha solved - continuing with data capture": break, then
\* checkSessionTimeout() and captureWithTimeout(10000).
Solved(t) ==
    /\ phase' = [name |-> "capture", start |-> t]
    /\ IF checkSessionTimeout(t)
       THEN /\ Throw("DataCaptureError", "sessionTimeout")
            /\ UNCHANGED lastOp
       ELSE /\ pc' = "capture1"
            /\ lastOp' = [op |-> "captureWait", phase |-> "capture", start |-> t]
            /\ NoThrow

\* A request whose URL contains '/veritix/pre-flow/v2/' is observed: every
\* attached pre-flow handler sees it and detaches itself.
PreFlowRequest ==
    /\ pc = "captchaWait"
    /\ \E d \in Within(CAPTCHA_TIMEOUT) : Advance(d)
    /\ preFlowHandlers' = 0
    /\ solvedBy' = "preFlow"
    /\ Solved(now')
    /\ UNCHANGED << env, pureVars, browser, page, connectCalls, lateConnect, respListener,
                    cdpSetup, captureVars, captchaRetries,
                    attempts, captchaListener, captchaClients, modal,
                    blockedLog, refreshVars, pricingCalls, closeLog, result >>

\* Captcha.solveFinished is received: the client removes its listeners.
SolveFinished ==
    /\ pc = "captchaWait"
    /\ captchaListener = "attached"
    /\ \E d \in Within(CAPTCHA_TIMEOUT) : Advance(d)
    /\ \E n \in {0, captchaClients - 1} : captchaClients' = n
    /\ solvedBy' = "solveFinished"
    /\ Solved(now')
    /\ UNCHANGED << env, pureVars, browser, page, connectCalls, lateConnect, respListener,
                    cdpSetup, captureVars, captchaRetries,
                    attempts, captchaListener, preFlowHandlers, modal,
                    blockedLog, refreshVars, pricingCalls, closeLog, result >>

\* addCaptchaListener could not create its CDP session: it resolves with
\* { error: ... }, and the race resolves.
ListenerSetupFailed ==
    /\ pc = "captchaWait"
    /\ captchaListener = "failed"
    /\ Advance(0)
    /\ solvedBy' = "listenerSetupFailed"
    /\ Solved(now')
    /\ UNCHANGED << env, pureVars, browser, page, connectCalls, lateConnect, respListener,
                    cdpSetup, captureVars, captchaRetries,
                    attempts, captchaListener, preFlowHandlers,
                    captchaClients, modal, blockedLog, refreshVars,
                    pricingCalls, closeLog, result >>

\* The 60 s timer rejects the race: captchaRetries++, and the throw of
\* CaptchaTimeoutError when the retries are used up.
CaptchaTimeout ==
    /\ pc = "captchaWait"
    /\ captchaListener # "failed"
    /\ Advance(CAPTCHA_TIMEOUT)
    /\ \E m \in Modals : modal' = m
    /\ captchaRetries' = captchaRetries + 1
    /\ IF captchaRetries' >= maxCaptchaRetries
       THEN /\ Throw("CaptchaTimeoutError", "captchaRetries")
            /\ UNCHANGED lastOp
       ELSE /\ pc' = "modalCheck"
            /\ lastOp' = Op("modalCheck")
            /\ NoThrow
    /\ UNCHANGED << env, pureVars, browser, page, connectCalls, lateConnect, respListener,
                    cdpSetup, captureVars, attempts,
                    captchaListener, preFlowHandlers, captchaClients,
                    solvedBy, blockedLog, phase, refreshVars,
                    pricingCalls, closeLog, result >>

\* "Check for blocking modal before retrying": page.$ and page.evaluate
\* inside try { ... } catch (modalError) { log }.  The ScraperBlockedError
\* thrown inside the try is caught by that catch.
ModalCheck ==
    /\ pc = "modalCheck"
    /\ ~Hangs("query")
    /\ \E d \in Unbounded : Advance(d)
    /\ \E threw \in Throws :
          blockedLog' = IF ~threw /\ modal = "blocked" THEN "gate"
                                                      ELSE blockedLog
    /\ lastOp' = Op("reload")
    /\ pc' = "reload"
    /\ UNCHANGED << env, pureVars, browser, page, connectCalls, lateConnect, respListener,
                    cdpSetup, captureVars, gateVars, modal,
                    phase, refreshVars, pricingCalls, closeLog, err, errMsg,
                    result >>

\* Variant: the reload between two attempts starts the capture afresh.
Reload_ClearsCapture ==
    /\ pc = "reload"
    /\ \E ok \in Oks :
          IF ok
          THEN Advance(ReloadSettle)
          ELSE Advance(ReloadTimeout)
    /\ BeginAttempt(now')
    /\ found' = [k \in Keys |-> FALSE]
    /\ capturedResponses' = [k \in Keys |-> "absent"]
    /\ UNCHANGED << env, pureVars, browser, page, connectCalls, lateConnect, respListener,
                    cdpSetup, inventoryResponses, allResponsesCaptured,
                    captchaRetries, solvedBy, modal, blockedLog, refreshVars,
                    pricingCalls, closeLog, result >>

\* page.reload and the 2 s wait (try/catch: a failure is logged), then the
\* next iteration of the loop.
Reload ==
    /\ pc = "reload"
    /\ \E ok \in Oks :
          IF ok
          THEN Advance(ReloadSettle)
          ELSE Advance(ReloadTimeout)
    /\ BeginAttempt(now')
    /\ UNCHANGED << env, pureVars, browser, page, connectCalls, lateConnect, respListener,
                    cdpSetup, captureVars, captchaRetries,
                    solvedBy, modal, blockedLog, refreshVars, pricingCalls,
                    closeLog, result >>

(***************************************************************************)
(* Data capture and the refresh-and-retry recovery.                        *)
(***************************************************************************)
\* After "Successfully captured all required responses": the has() check
\* of every target, the result object, and the hand-off to parseAXSTickets.
CaptureSucceeded ==
    IF \E k \in Keys : capturedResponses[k] = "absent"
    THEN /\ Throw("DataCaptureError", "incomplete")
         /\ UNCHANGED pricingCalls
    ELSE IF \A k \in Keys : truthy(capturedResponses[k])
         THEN /\ pricingCalls' = pricingCalls + 1
              /\ pc' = "parse"
              /\ NoThrow
         ELSE /\ Throw("DataCaptureError", "missingData")
              /\ UNCHANGED pricingCalls

\* captureWithTimeout(10000) resolves: the completion signal has fired.
Capture1Resolved ==
    /\ pc = "capture1"
    /\ allResponsesCaptured
    /\ Advance(0)
    /\ CaptureSucceeded
    /\ UNCHANGED << env, pureVars, browser, page, connectCalls, lateConnect, respListener,
                    cdpSetup, captureVars, gateVars, modal,
                    blockedLog, phase, lastOp, refreshVars, closeLog,
                    result >>

\* captureWithTimeout(10000) rejects; the .catch callback starts with
\* checkSessionTimeout() and page.waitForSelector(".header").
Capture1Timeout ==
    /\ pc = "capture1"
    /\ ~allResponsesCaptured
    /\ Advance(ShortCaptureTimeout)
    /\ phase' = [name |-> "refresh", start |-> now']
    /\ IF checkSessionTimeout(now')
       THEN /\ Throw("DataCaptureError", "sessionTimeout")
            /\ UNCHANGED lastOp
       ELSE /\ pc' = "headerWait"
            /\ lastOp' = [op |-> "waitHeader", phase |-> "refresh", start |-> now']
            /\ NoThrow
    /\ UNCHANGED << env, pureVars, browser, page, connectCalls, lateConnect, respListener,
                    cdpSetup, captureVars, gateVars, modal,
                    blockedLog, refreshVars, pricingCalls, closeLog, result >>

\* waitForSelector(".header") settles (its error is logged), page.$ starts.
HeaderWait ==
    /\ pc = "headerWait"
    /\ Advance(HeaderTimeout)
    /\ pc' = "refreshModal"
    /\ lastOp' = Op("modalCheck")
    /\ UNCHANGED << env, pureVars, browser, page, connectCalls, lateConnect, respListener,
                    cdpSetup, captureVars, gateVars, modal,
                    blockedLog, phase, refreshVars, pricingCalls, closeLog,
                    err, errMsg, result >>

\* Variant: the catch around the capture rewraps every error that is not a
\* DataCaptureError, the ScraperBlockedError included.
RefreshModalCheck_Rewrapped ==
    /\ pc = "refreshModal"
    /\ ~Hangs("query")
    /\ \E d \in Unbounded : Advance(d)
    /\ \E m \in Modals : modal' = m
    /\ \E threw \in BOOLEAN :
          IF threw
          THEN /\ Throw("DataCaptureError", "captureFailed")
               /\ UNCHANGED << blockedLog, lastOp >>
          ELSE IF modal' = "blocked"
               THEN /\ blockedLog' = "refresh"
                    /\ Throw("DataCaptureError", "blocked")
                    /\ UNCHANGED lastOp
               ELSE /\ pc' = "refreshPrimary"
                    /\ lastOp' = Op("waitPrimary")
                    /\ NoThrow
                    /\ UNCHANGED blockedLog
    /\ UNCHANGED << env, pureVars, browser, page, connectCalls, lateConnect, respListener,
                    cdpSetup, captureVars, gateVars,
                    phase, refreshVars, pricingCalls, closeLog, result >>

\* "Check for blocking modal one more time" (no try/catch around it), then
\* the waitForSelector of the primary refresh control.  An error that is
\* neither DataCaptureError nor ScraperBlockedError is rethrown as
\* DataCaptureError("Failed to capture required data within timeout").
RefreshModalCheck ==
    /\ pc = "refreshModal"
    /\ ~Hangs("query")
    /\ \E d \in Unbounded : Advance(d)
    /\ \E m \in Modals : modal' = m
    /\ \E threw \in BOOLEAN :
          IF threw
          THEN /\ Throw("DataCaptureError", "captureFailed")
               /\ UNCHANGED << blockedLog, lastOp >>
          ELSE IF modal' = "blocked"
               THEN /\ blockedLog' = "refresh"
                    /\ Throw("ScraperBlockedError", "blocked")
                    /\ UNCHANGED lastOp
               ELSE /\ pc' = "refreshPrimary"
                    /\ lastOp' = Op("waitPrimary")
                    /\ NoThrow
                    /\ UNCHANGED blockedLog
    /\ UNCHANGED << env, pureVars, browser, page, connectCalls, lateConnect, respListener,
                    cdpSetup, captureVars, gateVars,
                    phase, refreshVars, pricingCalls, closeLog, result >>

\* finalTimeout and captureWithTimeout(finalTimeout) at elapsed time t.
StartFinalWait(t) ==
    /\ finalRemaining' = MAX_SESSION_TIME - t
    /\ finalTimeout' = Max(MAX_SESSION_TIME - t - TimeoutBuffer, MinDataTimeout)
    /\ lastOp' = Op("captureWait")
    /\ pc' = "capture2"
    /\ NoThrow

\* Strategy 1: waitForSelector(".sc-hzyFKJ") and click, in try/catch.
RefreshPrimary ==
    /\ pc = "refreshPrimary"
    /\ \E ok \in Oks :
          IF ok
          THEN /\ Advance(0)
               /\ refreshLog' = Append(refreshLog, "primary:ok")
               /\ StartFinalWait(now')
          ELSE /\ Advance(SelectorTimeout)
               /\ refreshLog' = Append(refreshLog, "primary:failed")
               /\ lastOp' = Op("findButtons")
               /\ pc' = "refreshByText"
               /\ NoThrow
               /\ UNCHANGED << finalTimeout, finalRemaining >>
    /\ UNCHANGED << env, pureVars, browser, page, connectCalls, lateConnect, respListener,
                    cdpSetup, captureVars, gateVars, modal,
                    blockedLog, phase, pricingCalls, closeLog, result >>

\* Strategy 2: page.$$('button'), the first button whose text contains
\* 'refresh' is clicked.  Nothing catches an error of $$, evaluate or click.
RefreshByText ==
    /\ pc = "refreshByText"
    /\ ~Hangs("query")
    /\ Advance(0)
    /\ \E outcome \in {"clicked", "none", "threw"} :
          CASE outcome = "clicked" ->
                  /\ refreshLog' = Append(refreshLog, "text:ok")
                  /\ StartFinalWait(now')
            [] outcome = "none" ->
                  /\ refreshLog' = Append(refreshLog, "text:none")
                  /\ lastOp' = Op("reload")
                  /\ pc' = "refreshReload"
                  /\ NoThrow
                  /\ UNCHANGED << finalTimeout, finalRemaining >>
            [] outcome = "threw" ->
                  /\ refreshLog' = Append(refreshLog, "text:threw")
                  /\ Throw("DataCaptureError", "captureFailed")
                  /\ UNCHANGED << lastOp, finalTimeout, finalRemaining >>
    /\ UNCHANGED << env, pureVars, browser, page, connectCalls, lateConnect, respListener,
                    cdpSetup, captureVars, gateVars, modal,
                    blockedLog, phase, pricingCalls, closeLog, result >>

\* Strategy 3: page.reload({ waitUntil: "networkidle2" }), not in try/catch.
RefreshReload ==
    /\ pc = "refreshReload"
    /\ \E ok \in BOOLEAN :
          IF ok
          THEN /\ Advance(0)
               /\ refreshLog' = Append(refreshLog, "reload:ok")
               /\ StartFinalWait(now')
          ELSE /\ Advance(ReloadTimeout)
               /\ refreshLog' = Append(refreshLog, "reload:threw")
               /\ Throw("DataCaptureError", "captureFailed")
               /\ UNCHANGED << lastOp, finalTimeout, finalRemaining >>
    /\ UNCHANGED << env, pureVars, browser, page, connectCalls, lateConnect, respListener,
                    cdpSetup, captureVars, gateVars, modal, blockedLog,
                    phase, pricingCalls, closeLog, result >>

\* captureWithTimeout(finalTimeout) resolves.
Capture2Resolved ==
    /\ pc = "capture2"
    /\ allResponsesCaptured
    /\ Advance(0)
    /\ CaptureSucceeded
    /\ UNCHANGED << env, pureVars, browser, page, connectCalls, lateConnect, respListener,
                    cdpSetup, captureVars, gateVars, modal,
                    blockedLog, phase, lastOp, refreshVars, closeLog,
                    result >>

\* captureWithTimeout(finalTimeout) rejects with DataCaptureError, which the
\* outer catch rethrows.
Capture2Timeout ==
    /\ pc = "capture2"
    /\ ~allResponsesCaptured
    /\ Advance(finalTimeout)
    /\ Throw("DataCaptureError", "captureTimeout")
    /\ UNCHANGED << env, pureVars, browser, page, connectCalls, lateConnect, respListener,
                    cdpSetup, captureVars, gateVars, modal,
                    blockedLog, phase, lastOp, refreshVars, pricingCalls,
                    closeLog, result >>

\* await parseAXSTickets(...): return tickets, or the catch (parseError).
Parse ==
    /\ pc = "parse"
    /\ \E ok \in BOOLEAN :
          IF ok
          THEN pc' = "finallyPage" /\ NoThrow
          ELSE Throw("DataCaptureError", "parse")
    /\ UNCHANGED << env, pureVars, now, browser, page, connectCalls, lateConnect,
                    respListener, cdpSetup, captureVars, gateVars, modal, blockedLog, phase, lastOp, refreshVars,
                    pricingCalls, closeLog, result >>

(***************************************************************************)
(* Teardown: catch (error) { ... throw error } finally { ... }.            *)
(***************************************************************************)
\* The catch block: browser.close() when the error needs the session
\* closed; browser = null only when that close resolved.
Catch ==
    /\ pc = "catch"
    /\ (needsSessionClose(err) /\ browser = "handle") => ~Hangs("close")
    /\ IF needsSessionClose(err) /\ browser = "handle"
       THEN /\ closeLog' = Append(closeLog, "browser")
            /\ \E ok \in BOOLEAN : browser' = IF ok THEN "null" ELSE "handle"
       ELSE UNCHANGED << closeLog, browser >>
    /\ pc' = "finallyPage"
    /\ UNCHANGED << env, pureVars, now, page, connectCalls, lateConnect, respListener,
                    cdpSetup, captureVars, gateVars, modal,
                    blockedLog, phase, lastOp, refreshVars, pricingCalls,
                    err, errMsg, result >>

\* finally: if (page) page.close(), a failure of which is logged.
FinallyPage ==
    /\ pc = "finallyPage"
    /\ page = "handle" => ~Hangs("close")
    /\ closeLog' = IF page = "handle" THEN Append(closeLog, "page")
                                      ELSE closeLog
    /\ pc' = "finallyBrowser"
    /\ UNCHANGED << env, pureVars, now, browser, page, connectCalls, lateConnect,
                    respListener, cdpSetup, captureVars, gateVars, modal, blockedLog, phase, lastOp, refreshVars,
                    pricingCalls, err, errMsg, result >>

\* finally: if (browser) browser.close(), a failure of which is logged;
\* then the function returns the tickets or rethrows the error.
FinallyBrowser ==
    /\ pc = "finallyBrowser"
    /\ browser = "handle" => ~Hangs("close")
    /\ closeLog' = IF browser = "handle" THEN Append(closeLog, "browser")
                                         ELSE closeLog
    /\ pc' = "done"
    /\ result' = IF err = "none" THEN "tickets" ELSE "thrown"
    /\ UNCHANGED << env, pureVars, now, browser, page, connectCalls, lateConnect,
                    respListener, cdpSetup, captureVars, gateVars, modal, blockedLog, phase, lastOp, refreshVars,
                    pricingCalls, err, errMsg >>

Next ==
    \/ InitBrowser
    \/ InitBrowserConnected
    \/ InitBrowserRejected
    \/ InitBrowserTimeout
    \/ LateConnect
    \/ NewPage
    \/ SetupCDPNetworkMonitoring
    \/ GotoDone
    \/ GotoFailed
    \/ PreFlowRequest
    \/ SolveFinished
    \/ ListenerSetupFailed
    \/ CaptchaTimeout
    \/ ModalCheck
    \/ Reload
    \/ Capture1Resolved
    \/ Capture1Timeout
    \/ HeaderWait
    \/ RefreshModalCheck
    \/ RefreshPrimary
    \/ RefreshByText
    \/ RefreshReload
    \/ Capture2Resolved
    \/ Capture2Timeout
    \/ Parse
    \/ Catch
    \/ FinallyPage
    \/ FinallyBrowser
    \/ responseHandler
    \/ cdpResponseHandler

Spec == Init /\ [][Next]_vars

(***************************************************************************)
(* Runs under scheduling assumptions: the timers of the program fire, an   *)
(* event that can be delivered is delivered, and every browser operation   *)
(* settles except the one the run has hanging.  Each step of Next needs    *)
(* nothing but one of these, and the handlers can change the state only    *)
(* finitely often, so weak fairness of Next expresses the assumptions.     *)
(***************************************************************************)
LiveEnvs == {EnvFaults} \cup {EnvHangs(op) : op \in HangOps}

LiveInit == env \in LiveEnvs /\ ScrapeStart /\ PureIdle

LiveSpec == LiveInit /\ [][Next]_vars /\ WF_vars(Next)

(***************************************************************************)
(* The pattern match of the two response handlers on its own.  Strings are *)
(* sequences of characters here, so that two literal segments can overlap  *)
(* in the URL.                                                             *)
(***************************************************************************)
MaxStrLen == 4        \* longest string drawn from the alphabets below

PatternChars == {"/", "a", "*"}
UrlChars == {"/", "a", "1"}

Strings(chars) == UNION {[1..n -> chars] : n \in 0..MaxStrLen}

PatternAB == << "/", "a", "/", "*", "/", "b" >>
UrlA123B == << "/", "a", "/", "1", "2", "3", "/", "b" >>
UrlAB == << "/", "a", "/", "b" >>
UrlBA == << "/", "b", "/", "a", "/" >>

Patterns == Strings(PatternChars) \cup {PatternAB}
            \cup {targetEndpoints[t].pattern : t \in 1..Len(targetEndpoints)}
MatchUrls == Strings(UrlChars) \cup {UrlA123B, UrlAB, UrlBA} \cup Urls

MatchInit ==
    /\ ScrapeInit
    /\ env = EnvTiming
    /\ mPattern \in Patterns
    /\ mUrl \in MatchUrls
    /\ mChannel = "none"
    /\ mResult = FALSE
    /\ GroupIdle
    /\ EngineIdle

\* responseHandler: patternParts.every(part => url.includes(part)).
MatchInResponseHandler ==
    /\ mChannel = "none"
    /\ mChannel' = "page"
    /\ mResult' = matches(mPattern, mUrl)
    /\ UNCHANGED << scrapeVars, mPattern, mUrl, groupVars, engineVars >>

\* The Network.responseReceived handler: the same expression.
MatchInCDPHandler ==
    /\ mChannel = "none"
    /\ mChannel' = "cdp"
    /\ mResult' = matches(mPattern, mUrl)
    /\ UNCHANGED << scrapeVars, mPattern, mUrl, groupVars, engineVars >>

MatchNext ==
    \/ MatchInResponseHandler
    \/ MatchInCDPHandler

MatchSpec == MatchInit /\ [][MatchNext]_vars

(***************************************************************************)
(* The seat grouper of parseAXSTickets: one scan over the seats of the     *)
(* selected price level, sorted by number.                                 *)
(***************************************************************************)
MaxGroupSize == 4
MinGroupSize == 2

\* Variant: a run is extended without the cap on its length.
extendsGroup_NoCap(currentSeat, currentGroup) ==
    currentSeat.number = currentGroup[Len(currentGroup)].number + 1

\* currentSeat.number === lastSeat.number + 1 && currentGroup.length < 4
extendsGroup(currentSeat, currentGroup) ==
    /\ currentSeat.number = currentGroup[Len(currentGroup)].number + 1
    /\ Len(currentGroup) < MaxGroupSize

\* Variant: a later run of the same length replaces the best one.
isBetter_OrEqual(currentGroup, bestGroup) ==
    /\ Len(currentGroup) >= MinGroupSize
    /\ Len(currentGroup) >= Len(bestGroup)

\* currentGroup.length >= 2 && currentGroup.length > bestGroup.length
isBetter(currentGroup, bestGroup) ==
    /\ Len(currentGroup) >= MinGroupSize
    /\ Len(currentGroup) > Len(bestGroup)

\* The loop over selectedSeats from index i on, and the check of the last
\* group after it.
RECURSIVE scanGroups(_, _, _, _)
scanGroups(selectedSeats, i, currentGroup, bestGroup) ==
    IF i > Len(selectedSeats)
    THEN IF isBetter(currentGroup, bestGroup) THEN currentGroup ELSE bestGroup
    ELSE LET currentSeat == selectedSeats[i]
         IN  IF Len(currentGroup) = 0
             THEN scanGroups(selectedSeats, i + 1, << currentSeat >>, bestGroup)
             ELSE IF extendsGroup(currentSeat, currentGroup)
                  THEN scanGroups(selectedSeats, i + 1,
                                  Append(currentGroup, currentSeat), bestGroup)
                  ELSE scanGroups(selectedSeats, i + 1, << currentSeat >>,
                                  IF isBetter(currentGroup, bestGroup)
                                  THEN currentGroup ELSE bestGroup)

bestConsecutiveGroup(selectedSeats) == scanGroups(selectedSeats, 1, << >>, << >>)

MaxSeatNumber == 8    \* seat numbers of the scan alone are 1..MaxSeatNumber

\* A seat as the first pass stores it (only the number matters to the scan).
Seat(n) == [number |-> n, displayOrder |-> n, seatId |-> n,
            offerId |-> "O1", priceLevelId |-> "PL1"]

\* The seats numbered S in ascending order.
RECURSIVE Ascending(_)
Ascending(S) ==
    IF S = {} THEN << >>
    ELSE LET n == CHOOSE x \in S : \A y \in S : x <= y
         IN  << Seat(n) >> \o Ascending(S \ {n})

GroupInit ==
    /\ ScrapeInit
    /\ env = EnvTiming
    /\ MatchIdle
    /\ gSeats \in {Ascending(S) : S \in SUBSET (1..MaxSeatNumber)}
    /\ gDone = FALSE
    /\ gBest = << >>
    /\ EngineIdle

FindBestGroup ==
    /\ ~gDone
    /\ gDone' = TRUE
    /\ gBest' = bestConsecutiveGroup(gSeats)
    /\ UNCHANGED << scrapeVars, matchVars, gSeats, engineVars >>

GroupNext == FindBestGroup

GroupSpec == GroupInit /\ [][GroupNext]_vars

(***************************************************************************)
(* Amounts.  The program computes in cents with JavaScript numbers; a fee  *)
(* of rate percent and the tax on it carry two divisions by 100, so the    *)
(* model counts in units of 1/10000 cent, in which those divisions are     *)
(* exact.  NaN is the one non-number the arithmetic can produce.           *)
(***************************************************************************)
Unit == 100 * 100

NaN == 0 - 999999999

Cents(c) == c * Unit

isNaN(x) == x = NaN

Plus(a, b) == IF isNaN(a) \/ isNaN(b) THEN NaN ELSE a + b

Minus(a, b) == IF isNaN(a) \/ isNaN(b) THEN NaN ELSE a - b

\* a * rate / 100 (the hundreds and the rest of a apart, which keeps the
\* product small)
Percent(a, rate) ==
    IF isNaN(a) THEN NaN
    ELSE (a \div 100) * rate + ((a % 100) * rate) \div 100

\* Math.round(n / d) for d > 0: the nearest integer, a half going up.
MathRound(n, d) == (2 * n + d) \div (2 * d)

\* Math.round(feeComponentAmount / roundOff) * roundOff, for roundOff >= 0;
\* a roundOff of 0 divides by zero and the product with 0 is NaN.
roundOffTo(amount, r) ==
    IF r = 0 THEN NaN ELSE MathRound(amount, Cents(r)) * Cents(r)

RECURSIVE SumAmounts(_)
SumAmounts(amounts) ==
    IF amounts = << >> THEN 0
    ELSE Plus(SumAmounts(SubSeq(amounts, 1, Len(amounts) - 1)),
              amounts[Len(amounts)])

(***************************************************************************)
(* buildPriceLevelsMap.  An optional number is a sequence of length 0      *)
(* (absent) or 1; taxIds is a set.                                         *)
(***************************************************************************)
LetTaxId == "1001"

\* Index of the last element of seq whose field id is the given one (a
\* later assignment to the same key of rootFeeMap / taxMap overwrites).
lastIndexOf(seq, id) ==
    CHOOSE i \in 1..Len(seq) :
        /\ seq[i].id = id
        /\ \A j \in (i + 1)..Len(seq) : seq[j].id # id

rootFeeMap(price) ==
    [id \in {price.fees[i].id : i \in 1..Len(price.fees)} |->
        price.fees[lastIndexOf(price.fees, id)]]

taxMap(price) ==
    [id \in {price.taxes[i].id : i \in 1..Len(price.taxes)} |->
        price.taxes[lastIndexOf(price.taxes, id)]]

\* Variant: the last range containing the price is used.
lookupAmount_LastRange(lookupRanges, base) ==
    LET hits == {i \in 1..Len(lookupRanges) :
                    /\ base >= lookupRanges[i].start * 100
                    /\ (lookupRanges[i].end = 0
                        \/ base < lookupRanges[i].end * 100)}
    IN  IF hits = {} THEN 0
        ELSE Cents(lookupRanges[CHOOSE i \in hits :
                                    \A j \in hits : j <= i].amount)

\* The Lookup loop: priceInDollars = base / 100 is compared with the range
\* limits; the first range that contains it gives the amount (break).
lookupAmount(lookupRanges, base) ==
    LET hits == {i \in 1..Len(lookupRanges) :
                    /\ base >= lookupRanges[i].start * 100
                    /\ (lookupRanges[i].end = 0
                        \/ base < lookupRanges[i].end * 100)}
    IN  IF hits = {} THEN 0
        ELSE Cents(lookupRanges[CHOOSE i \in hits :
                                    \A j \in hits : i <= j].amount)

percentageAmount(base, rate, roundOff) ==
    LET amount == Percent(Cents(base), rate)
    IN  IF Len(roundOff) = 1 THEN roundOffTo(amount, roundOff[1]) ELSE amount

\* let feeComponentAmount = 0; if (Lookup) ... else if (Percentage) ...
\* else if (Fixed) ...
feeComponentAmount(component, base) ==
    IF component.calculationMethod = "Lookup"
    THEN lookupAmount(component.lookupRanges, base)
    ELSE IF component.calculationMethod = "Percentage"
            /\ Len(component.rate) = 1
         THEN percentageAmount(base, component.rate[1], component.roundOff)
         ELSE IF component.calculationMethod = "Fixed"
                 /\ Len(component.amount) = 1
              THEN Cents(component.amount[1])
              ELSE 0

\* Variant: the application method of the fee is not looked at.
RECURSIVE assignedComponents_AnyMethod(_, _)
assignedComponents_AnyMethod(price, offerFees) ==
    IF offerFees = << >> THEN << >>
    ELSE LET id == offerFees[Len(offerFees)].id
             rest == assignedComponents_AnyMethod(price,
                                        SubSeq(offerFees, 1, Len(offerFees) - 1))
         IN  IF id \in DOMAIN rootFeeMap(price)
             THEN rest \o rootFeeMap(price)[id].components
             ELSE rest

\* The components of the fees assigned to the offer that are defined at
\* root level with applicationMethod "PerItem", in loop order.
RECURSIVE assignedComponents(_, _)
assignedComponents(price, offerFees) ==
    IF offerFees = << >> THEN << >>
    ELSE LET id == offerFees[Len(offerFees)].id
             rest == assignedComponents(price,
                                        SubSeq(offerFees, 1, Len(offerFees) - 1))
         IN  IF id \in DOMAIN rootFeeMap(price)
                /\ rootFeeMap(price)[id].applicationMethod = "PerItem"
             THEN rest \o rootFeeMap(price)[id].components
             ELSE rest

\* Variant: every component counts as taxable.
isTaxable_Always(component) == TRUE

\* Variant: no component counts as taxable.
isTaxable_Never(component) == FALSE

\* comp.taxIds && comp.taxIds.includes("1001")
isTaxable(component) == LetTaxId \in component.taxIds

\* Amount of the last price component of the given name, 0 without one.
namedAmount(priceComponents, name) ==
    LET named == {i \in 1..Len(priceComponents) :
                     priceComponents[i].name = name}
    IN  IF named = {} THEN 0
        ELSE Cents(priceComponents[CHOOSE i \in named :
                                       \A j \in named : j <= i].amount)

NoPriceLevel == [present |-> FALSE]

\* One iteration of the innermost loop: the priceLevelData of a price level
\* that has a prices[0].  feeAmounts and taxableAmount record the locals
\* feeComponentAmount (per component) and currentTaxableAmount.
priceLevelDataOf(price, offerPrice, zonePrice, priceLevel) ==
    LET firstPriceEntry == priceLevel.prices[1]
        baseAmountForFeeCalculation == firstPriceEntry.base
        priceComponents == firstPriceEntry.priceComponents
        components == assignedComponents(price, offerPrice.fees)
        feeAmounts == [i \in 1..Len(components) |->
                          feeComponentAmount(components[i],
                                             baseAmountForFeeCalculation)]
        totalCalculatedPerItemFees == SumAmounts(feeAmounts)
        currentTaxableAmount ==
            Plus(SumAmounts([i \in 1..Len(priceComponents) |->
                                IF isTaxable(priceComponents[i])
                                THEN Cents(priceComponents[i].amount) ELSE 0]),
                 SumAmounts([i \in 1..Len(components) |->
                                IF isTaxable(components[i])
                                THEN feeAmounts[i] ELSE 0]))
        globalTaxRate == IF LetTaxId \in DOMAIN taxMap(price)
                         THEN taxMap(price)[LetTaxId].rate ELSE 0
        totalTax == Percent(currentTaxableAmount, globalTaxRate)
    IN  [present |-> TRUE,
         priceLevelID |-> priceLevel.priceLevelID,
         label |-> priceLevel.label,
         basePrice |-> namedAmount(priceComponents, "Base Component"),
         facilityFee |-> namedAmount(priceComponents, "VEN_FacFee"),
         totalFees |-> totalCalculatedPerItemFees,
         totalTax |-> totalTax,
         websiteDisplayPrice |->
             Plus(Plus(Cents(baseAmountForFeeCalculation),
                       totalCalculatedPerItemFees), totalTax),
         priceTypeID |-> firstPriceEntry.priceTypeID,
         rawDynamicPrices |-> zonePrice.rawDynamicPrices,
         feeAmounts |-> feeAmounts,
         taxableAmount |-> currentTaxableAmount]

\* The price levels in loop order (offerPrices, zonePrices, priceLevels),
\* each with the offer and the zone that own it.
levelEntries(price) ==
    LET entriesOfZone(o, z) ==
            [l \in 1..Len(price.offerPrices[o].zonePrices[z].priceLevels) |->
                [offer |-> o, zone |-> z, level |-> l]]
        RECURSIVE zonesFrom(_, _)
        zonesFrom(o, z) ==
            IF z > Len(price.offerPrices[o].zonePrices) THEN << >>
            ELSE entriesOfZone(o, z) \o zonesFrom(o, z + 1)
        RECURSIVE offersFrom(_)
        offersFrom(o) ==
            IF o > Len(price.offerPrices) THEN << >>
            ELSE zonesFrom(o, 1) \o offersFrom(o + 1)
    IN  offersFrom(1)

\* buildPriceLevelsMap: priceLevelsMap[id] is the data of the last price
\* level of that id that has prices; ids without one are absent.
buildPriceLevelsMap(results, ids) ==
    LET price == results.price
        entries == levelEntries(price)
        levelAt(e) == price.offerPrices[e.offer].zonePrices[e.zone]
                           .priceLevels[e.level]
        usable(id) == {i \in 1..Len(entries) :
                          /\ levelAt(entries[i]).priceLevelID = id
                          /\ Len(levelAt(entries[i]).prices) > 0}
    IN  [id \in ids |->
            IF usable(id) = {} THEN NoPriceLevel
            ELSE LET e == entries[CHOOSE i \in usable(id) :
                                      \A j \in usable(id) : j <= i]
                 IN  priceLevelDataOf(price, price.offerPrices[e.offer],
                                      price.offerPrices[e.offer].zonePrices[e.zone],
                                      levelAt(e))]

(***************************************************************************)
(* getDynamicPrice and calculateSeatPricing.  A value that may be null is  *)
(* a sequence of length 0 (null) or 1.                                     *)
(***************************************************************************)
dynamicPriceKey(priceLevelData, sectionID, rowID, seatId) ==
    << priceLevelData.priceTypeID, sectionID, rowID, seatId,
       priceLevelData.priceLevelID >>

\* return priceLevelData.rawDynamicPrices[dynamicPriceKey] || null, and null
\* without a priceTypeID ("" stands for a missing or empty one).
getDynamicPrice(priceLevelData, sectionID, rowID, seatId) ==
    LET key == dynamicPriceKey(priceLevelData, sectionID, rowID, seatId)
    IN  IF priceLevelData.priceTypeID = "" THEN << >>
        ELSE IF /\ key \in DOMAIN priceLevelData.rawDynamicPrices
                /\ priceLevelData.rawDynamicPrices[key] # 0
             THEN << priceLevelData.rawDynamicPrices[key] >>
             ELSE << >>

\* Variant: a seat with an override carries no tax.
calculateSeatPricing_NoTaxOnOverride(priceLevelData, sectionID, rowID, seatId) ==
    LET dynamicPrice == getDynamicPrice(priceLevelData, sectionID, rowID, seatId)
        venFacFeeAmount == priceLevelData.facilityFee
        totalTax == IF dynamicPrice # << >> THEN 0 ELSE priceLevelData.totalTax
        baseAmountForCalculation ==
            IF dynamicPrice # << >>
            THEN Cents(dynamicPrice[1])
            ELSE Plus(priceLevelData.basePrice, priceLevelData.facilityFee)
        baseComponentAmount ==
            IF dynamicPrice # << >>
            THEN Minus(Cents(dynamicPrice[1]), venFacFeeAmount)
            ELSE priceLevelData.basePrice
    IN  [basePrice |-> baseComponentAmount,
         facilityFee |-> venFacFeeAmount,
         totalFees |-> priceLevelData.totalFees,
         totalTax |-> totalTax,
         websiteDisplayPrice |->
             Plus(Plus(baseAmountForCalculation, priceLevelData.totalFees),
                  totalTax),
         isDynamicPricing |-> dynamicPrice # << >>]

calculateSeatPricing(priceLevelData, sectionID, rowID, seatId) ==
    LET dynamicPrice == getDynamicPrice(priceLevelData, sectionID, rowID, seatId)
        venFacFeeAmount == priceLevelData.facilityFee
        baseAmountForCalculation ==
            IF dynamicPrice # << >>
            THEN Cents(dynamicPrice[1])
            ELSE Plus(priceLevelData.basePrice, priceLevelData.facilityFee)
        baseComponentAmount ==
            IF dynamicPrice # << >>
            THEN Minus(Cents(dynamicPrice[1]), venFacFeeAmount)
            ELSE priceLevelData.basePrice
    IN  [basePrice |-> baseComponentAmount,
         facilityFee |-> venFacFeeAmount,
         totalFees |-> priceLevelData.totalFees,
         totalTax |-> priceLevelData.totalTax,
         websiteDisplayPrice |->
             Plus(Plus(baseAmountForCalculation, priceLevelData.totalFees),
                  priceLevelData.totalTax),
         isDynamicPricing |-> dynamicPrice # << >>]

(***************************************************************************)
(* parseAXSTickets, first pass.  item.number is the decimal string of the  *)
(* seat number; an attribute is a sequence of words.                       *)
(***************************************************************************)
MaxNumber == 20       \* parseInt is followed on the numerals 0..MaxNumber

parseInt(str) ==
    IF \E n \in 0..MaxNumber : ToString(n) = str
    THEN CHOOSE n \in 0..MaxNumber : ToString(n) = str
    ELSE NaN

LowerCase == [w \in {"Restricted", "RESTRICTED", "restricted", "Accessible",
                     "ACCESSIBLE", "accessible", "Aisle", "aisle", "View",
                     "view", " ", "FLASHSEATS", "FlashSeats", "flashseats",
                     "Standard", "standard", "Available", "available",
                     "Sold", "sold"} |->
    CASE w \in {"Restricted", "RESTRICTED", "restricted"} -> "restricted"
      [] w \in {"Accessible", "ACCESSIBLE", "accessible"} -> "accessible"
      [] w \in {"Aisle", "aisle"} -> "aisle"
      [] w \in {"View", "view"} -> "view"
      [] w \in {"FLASHSEATS", "FlashSeats", "flashseats"} -> "flashseats"
      [] w \in {"Standard", "standard"} -> "standard"
      [] w \in {"Available", "available"} -> "available"
      [] w \in {"Sold", "sold"} -> "sold"
      [] OTHER -> w]

toLowerCase(str) == [i \in 1..Len(str) |-> LowerCase[str[i]]]

\* Variant: the attributes are compared without lowering their case.
hasSkippedAttribute_CaseSensitive(item) ==
    \E a \in 1..Len(item.attributes) :
        \/ includes(item.attributes[a], << "restricted" >>)
        \/ includes(item.attributes[a], << "accessible" >>)

\* item.attributes?.some(attr => attr.toLowerCase().includes('restricted')
\*                               || attr.toLowerCase().includes('accessible'))
hasSkippedAttribute(item) ==
    \E a \in 1..Len(item.attributes) :
        \/ includes(toLowerCase(item.attributes[a]), << "restricted" >>)
        \/ includes(toLowerCase(item.attributes[a]), << "accessible" >>)

\* The three tests that make the first pass skip an item.
skipsItem(item) ==
    \/ toLowerCase(item.statusCodeLabel) = << "accessible" >>
    \/ hasSkippedAttribute(item)
    \/ includes(toLowerCase(item.seatType), << "flashseats" >>)

\* offer.offerType === "FLASHSEATS", or no items.
skipsOffer(offer) == offer.offerType = "FLASHSEATS" \/ Len(offer.items) = 0

\* The items the first pass reads, in loop order, each with its offer.
RECURSIVE readItems(_)
readItems(offers) ==
    IF offers = << >> THEN << >>
    ELSE LET offer == offers[1]
         IN  (IF skipsOffer(offer) THEN << >>
              ELSE [i \in 1..Len(offer.items) |->
                       [item |-> offer.items[i], offerID |-> offer.offerID]])
             \o readItems(Tail(offers))

sectionRowKey(item) == << item.sectionID, item.rowLabel >>

\* sectionRowPriceSeats after the items read[1..n] (keys in insertion order).
RECURSIVE collectSeats(_, _)
collectSeats(read, n) ==
    IF n = 0 THEN << >>
    ELSE LET before == collectSeats(read, n - 1)
             item == read[n].item
             seat == [number |-> parseInt(item.number),
                      displayOrder |-> item.displayOrder,
                      seatId |-> item.id,
                      offerId |-> read[n].offerID,
                      priceLevelId |-> item.priceLevelID]
             at == {g \in 1..Len(before) : before[g].key = sectionRowKey(item)}
         IN  IF skipsItem(item) THEN before
             ELSE IF at = {}
                  THEN Append(before,
                              [key |-> sectionRowKey(item),
                               sectionLabel |-> item.sectionLabel,
                               sectionID |-> item.sectionID,
                               rowLabel |-> item.rowLabel,
                               rowID |-> item.rowID,
                               seats |-> << seat >>])
                  ELSE [before EXCEPT ![CHOOSE g \in at : TRUE].seats =
                                          Append(@, seat)]

(***************************************************************************)
(* parseAXSTickets, second pass, for one section-row.                      *)
(***************************************************************************)
\* The keys of seatsByPriceLevel in insertion order.
RECURSIVE levelOrder(_)
levelOrder(seats) ==
    IF seats = << >> THEN << >>
    ELSE LET before == levelOrder(SubSeq(seats, 1, Len(seats) - 1))
             id == seats[Len(seats)].priceLevelId
         IN  IF \E i \in 1..Len(before) : before[i] = id
             THEN before ELSE Append(before, id)

RECURSIVE seatsOfLevel(_, _)
seatsOfLevel(seats, id) ==
    IF seats = << >> THEN << >>
    ELSE (IF seats[1].priceLevelId = id THEN << seats[1] >> ELSE << >>)
         \o seatsOfLevel(Tail(seats), id)

\* totalPrice of the seats of one price level.
totalPriceOf(seats, priceLevelData, groupData) ==
    SumAmounts([i \in 1..Len(seats) |->
                   calculateSeatPricing(priceLevelData, groupData.sectionID,
                                        groupData.rowID, seats[i].seatId)
                       .websiteDisplayPrice])

NoBest == [bestPriceLevelId |-> "", maxSeats |-> 0, lowestTotal |-> 0,
           lowestCount |-> 0]

\* averagePrice < lowestPrice, with averagePrice = total / count / 100 and
\* lowestPrice = best.lowestTotal / best.lowestCount / 100 (Infinity while
\* lowestCount is 0); a comparison with NaN is false.
lowerAverage(total, count, best) ==
    /\ ~isNaN(total)
    /\ ~isNaN(best.lowestTotal)
    /\ \/ best.lowestCount = 0
       \/ total * best.lowestCount < best.lowestTotal * count

\* Variant: the tie between two price levels goes to the dearer one.
prefersLevel_Dearer(count, total, best) ==
    \/ count > best.maxSeats
    \/ count = best.maxSeats /\ ~lowerAverage(total, count, best)

\* seats.length > maxSeats ||
\* (seats.length === maxSeats && averagePrice < lowestPrice)
prefersLevel(count, total, best) ==
    \/ count > best.maxSeats
    \/ count = best.maxSeats /\ lowerAverage(total, count, best)

\* The loop over seatsByPriceLevel up to its n-th key.
RECURSIVE selectLevel(_, _, _, _)
selectLevel(groupData, order, n, levels) ==
    IF n = 0 THEN NoBest
    ELSE LET best == selectLevel(groupData, order, n - 1, levels)
             priceLevelId == order[n]
             seats == seatsOfLevel(groupData.seats, priceLevelId)
             priceLevelData == levels[priceLevelId]
             total == totalPriceOf(seats, priceLevelData, groupData)
         IN  IF ~priceLevelData.present THEN best
             ELSE IF prefersLevel(Len(seats), total, best)
                  THEN [bestPriceLevelId |-> priceLevelId,
                        maxSeats |-> Len(seats),
                        lowestTotal |-> total,
                        lowestCount |-> Len(seats)]
                  ELSE best

\* Variant: the seats are scanned in the order of the offer, unsorted.
sortByNumber_OfferOrder(seats) == seats

\* selectedSeats.sort((a, b) => a.number - b.number): a stable sort.
RECURSIVE sortByNumber(_)
sortByNumber(seats) ==
    IF seats = << >> THEN << >>
    ELSE LET sorted == sortByNumber(SubSeq(seats, 1, Len(seats) - 1))
             seat == seats[Len(seats)]
             k == Cardinality({i \in 1..Len(sorted) :
                                  sorted[i].number <= seat.number})
         IN  SubSeq(sorted, 1, k) \o << seat >>
             \o SubSeq(sorted, k + 1, Len(sorted))

\* numbers.join(',')
RECURSIVE join(_)
join(numbers) ==
    IF numbers = << >> THEN << >>
    ELSE IF Len(numbers) = 1 THEN << ToString(numbers[1]) >>
    ELSE << ToString(numbers[1]), "," >> \o join(Tail(numbers))

\* parseFloat((amount / 100).toFixed(2)), in cents: the amount rounded to
\* the nearest cent, a half cent going up.
toFixed2(amount) == IF isNaN(amount) THEN NaN ELSE MathRound(amount, Unit)

\* Variant: the connection fee of the section is not read.
connectionFeeOf_NotRead(results, sectionLabel) == 0

connectionFeeOf(results, sectionLabel) ==
    IF sectionLabel \in DOMAIN results.sections
       /\ Len(results.sections[sectionLabel].connectionFee) = 1
    THEN results.sections[sectionLabel].connectionFee[1]
    ELSE 0

\* Variant: the group is priced by its last seat.
representativeSeat_Last(bestGroup) == bestGroup[Len(bestGroup)]

\* const firstSeat = bestGroup[0]: the seat whose pricing the ticket reports.
representativeSeat(bestGroup) == bestGroup[1]

\* The body of the second-pass loop: the tickets (none or one) it pushes
\* for groupData.  seatIds and priceLevelId record bestGroup and
\* bestPriceLevelId.
ticketsOf(groupData, levels, results) ==
    LET order == levelOrder(groupData.seats)
        best == selectLevel(groupData, order, Len(order), levels)
        bestPriceLevelId == best.bestPriceLevelId
        selectedSeats == sortByNumber(seatsOfLevel(groupData.seats,
                                                   bestPriceLevelId))
        bestGroup == bestConsecutiveGroup(selectedSeats)
        seatPricing == calculateSeatPricing(levels[bestPriceLevelId],
                                            groupData.sectionID,
                                            groupData.rowID,
                                            representativeSeat(bestGroup).seatId)
        face_price == toFixed2(Plus(seatPricing.basePrice,
                                    seatPricing.facilityFee))
        taxed_cost == toFixed2(Plus(seatPricing.totalFees,
                                    seatPricing.totalTax))
        connection_fee_dollars ==
            toFixed2(Cents(connectionFeeOf(results, groupData.sectionLabel)))
    IN  IF bestPriceLevelId = "" THEN << >>
        ELSE IF Len(bestGroup) < MinGroupSize THEN << >>
        ELSE << [section |-> groupData.sectionLabel,
                 row |-> groupData.rowLabel,
                 seats |-> join([i \in 1..Len(bestGroup) |->
                                    bestGroup[i].number]),
                 quantity |-> Len(bestGroup),
                 face_price |-> face_price,
                 taxed_cost |-> taxed_cost,
                 cost |-> Plus(Plus(face_price, taxed_cost),
                               connection_fee_dollars),
                 isDynamicPricing |-> seatPricing.isDynamicPricing,
                 connection_fee |-> connection_fee_dollars,
                 seatIds |-> [i \in 1..Len(bestGroup) |-> bestGroup[i].seatId],
                 priceLevelId |-> bestPriceLevelId] >>

(***************************************************************************)
(* The captures parseAXSTickets is run on.  Three families: a row whose    *)
(* seats vary (SeatScenarios), a price level whose fees and taxes vary     *)
(* (FeeScenarios), and a row with dynamic-price overrides                  *)
(* (DynamicScenarios).                                                     *)
(***************************************************************************)
MaxRowSeat == 4       \* the varied row has the seats 1..MaxRowSeat
LongRow == 6          \* seats of the row that is longer than a group

PriceLevelIds == {"PL1", "PL2", "PLX"}

OtherTaxId == "2002"

PriceLevel(id, baseComponent, facFee, baseTags, facTags, priceTypeID) ==
    [priceLevelID |-> id, label |-> id,
     prices |-> << [base |-> baseComponent + facFee,
                    priceTypeID |-> priceTypeID,
                    priceComponents |->
                        << [name |-> "Base Component",
                            amount |-> baseComponent, taxIds |-> baseTags],
                           [name |-> "VEN_FacFee",
                            amount |-> facFee, taxIds |-> facTags] >>] >>]

FeeComponent(method, lookupRanges, rate, roundOff, amount, taxIds) ==
    [calculationMethod |-> method, lookupRanges |-> lookupRanges,
     rate |-> rate, roundOff |-> roundOff, amount |-> amount,
     taxIds |-> taxIds]

FixedFee(amount, taxIds) ==
    FeeComponent("Fixed", << >>, << >>, << >>, << amount >>, taxIds)

Range(start, end, amount) == [start |-> start, end |-> end, amount |-> amount]

\* price with one offer, one zone, the given price levels, one per-item fee
\* "F1" of one component assigned to the offer, and the given taxes.
Price(levels, component, taxes, rawDynamicPrices) ==
    [fees |-> << [id |-> "F1", applicationMethod |-> "PerItem",
                  components |-> << component >>] >>,
     taxes |-> taxes,
     offerPrices |-> << [offerID |-> "O1",
                         fees |-> << [id |-> "F1"] >>,
                         zonePrices |->
                             << [rawDynamicPrices |-> rawDynamicPrices,
                                 priceLevels |-> levels] >>] >>]

NoDynamicPrices == [k \in {} |-> 0]

Item(row, n, level, attributes) ==
    [id |-> IF row = "A" THEN n ELSE 100 + n,
     sectionID |-> "S1", sectionLabel |-> "101",
     rowID |-> IF row = "A" THEN "R1" ELSE "R2", rowLabel |-> row,
     number |-> ToString(n), displayOrder |-> n, priceLevelID |-> level,
     attributes |-> attributes,
     statusCodeLabel |-> << "Available" >>, seatType |-> << "Standard" >>]

Sections == [l \in {"101"} |-> [connectionFee |-> << >>]]

Results(price, offers) ==
    [sections |-> Sections, offerSearch |-> [offers |-> offers],
     price |-> price]

\* What a seat of the varied row is: not on sale, on sale at one of the
\* price levels (PLX is not in the price data), on sale with a flagging
\* attribute, or in the resale offer.
SeatKinds == {"none", "PL1", "PL2", "PLX", "flagged", "resale"}

\* The attributes of a flagged seat: odd seats have a restricted view, even
\* seats are accessible seats.
FlaggingAttributes(n) ==
    IF n % 2 = 1 THEN << << "Restricted", " ", "View" >> >>
                 ELSE << << "Aisle" >>, << "ACCESSIBLE" >> >>

\* The items of the row A seats of the given kinds, highest number first.
RECURSIVE rowItems(_, _, _)
rowItems(kinds, n, wanted) ==
    IF n = 0 THEN << >>
    ELSE (IF kinds[n] \in wanted
          THEN << Item("A", n,
                       IF kinds[n] \in {"PL2", "PLX"} THEN kinds[n] ELSE "PL1",
                       IF kinds[n] = "flagged" THEN FlaggingAttributes(n)
                                               ELSE << >>) >>
          ELSE << >>)
         \o rowItems(kinds, n - 1, wanted)

RowB == << Item("B", 2, "PL2", << >>), Item("B", 1, "PL2", << >>) >>

SeatOffers(kinds) ==
    << [offerID |-> "O2", offerType |-> "FLASHSEATS",
        items |-> rowItems(kinds, MaxRowSeat, {"resale"})],
       [offerID |-> "O1", offerType |-> "STANDARD",
        items |-> rowItems(kinds, MaxRowSeat,
                           {"PL1", "PL2", "PLX", "flagged"}) \o RowB] >>

LetTax(rate) == << [id |-> LetTaxId, rate |-> rate] >>

SeatScenarios ==
    {Results(Price(<< PriceLevel("PL1", 2000, 200, {LetTaxId}, {LetTaxId}, "PT1"),
                      PriceLevel("PL2", 1000, 200, {LetTaxId}, {LetTaxId}, "PT1") >>,
                   FixedFee(300, {LetTaxId}), LetTax(10), NoDynamicPrices),
             SeatOffers(kinds)) :
        kinds \in [1..MaxRowSeat -> SeatKinds]}

\* A row of LongRow consecutive seats of one price level.
LongRowScenario ==
    Results(Price(<< PriceLevel("PL1", 2000, 200, {LetTaxId}, {LetTaxId}, "PT1") >>,
                  FixedFee(300, {LetTaxId}), LetTax(10), NoDynamicPrices),
            << [offerID |-> "O1", offerType |-> "STANDARD",
                items |-> [i \in 1..LongRow |-> Item("A", i, "PL1", << >>)]] >>)

\* The row of the dynamic-price family: seats 10..13 of PL1.
Row10to13 ==
    << [offerID |-> "O1", offerType |-> "STANDARD",
        items |-> [i \in 1..4 |-> Item("A", 9 + i, "PL1", << >>)]] >>

\* The row of the fee family: seats 10 and 11 of PL1.
Row10to11 ==
    << [offerID |-> "O1", offerType |-> "STANDARD",
        items |-> [i \in 1..2 |-> Item("A", 9 + i, "PL1", << >>)]] >>

LookupRangeLists ==
    {<< Range(0, 100, 500), Range(100, 0, 1000) >>,
     << Range(100, 0, 1000), Range(0, 100, 500) >>,
     << Range(0, 0, 500), Range(0, 100, 700) >>,
     << Range(200, 300, 900) >>}

FeeComponentsOf(taxIds) ==
    {FeeComponent("Lookup", r, << >>, << >>, << >>, taxIds) :
        r \in LookupRangeLists}
    \cup {FeeComponent("Percentage", << >>, << rate >>, roundOff, << >>, taxIds) :
            rate \in {3, 10}, roundOff \in {<< >>, << 0 >>, << 25 >>, << 7 >>}}
    \cup {FixedFee(300, taxIds)}

FeeScenarios ==
    {Results(Price(<< PriceLevel("PL1", baseComponent, 200,
                                 IF baseTagged THEN {LetTaxId} ELSE {},
                                 IF facTagged THEN {LetTaxId} ELSE {OtherTaxId},
                                 "PT1") >>,
                   component, taxes, NoDynamicPrices),
             Row10to11) :
        baseComponent \in {1050, 2000, 4800, 9800, 49800},
        baseTagged \in BOOLEAN, facTagged \in BOOLEAN,
        component \in FeeComponentsOf({}) \cup FeeComponentsOf({LetTaxId})
                      \cup FeeComponentsOf({OtherTaxId}),
        taxes \in {LetTax(10), LetTax(0),
                   << [id |-> OtherTaxId, rate |-> 10] >>}}

\* Overrides for the seats 10 and 11 of the row, under the key the program
\* builds for them or under the key of another price type.
DynamicPriceTables ==
    {[k \in keys |-> IF k[4] = 10 THEN v10 ELSE 2500] :
        keys \in SUBSET {<< "PT1", "S1", "R1", 10, "PL1" >>,
                         << "PT1", "S1", "R1", 11, "PL1" >>,
                         << "PT9", "S1", "R1", 10, "PL1" >>},
        v10 \in {0, 1500, 3000}}

DynamicScenarios ==
    {Results(Price(<< PriceLevel("PL1", 2000, 200, {LetTaxId}, {LetTaxId},
                                 priceTypeID) >>,
                   FixedFee(300, {LetTaxId}), LetTax(10), raw),
             Row10to13) :
        raw \in DynamicPriceTables, priceTypeID \in {"PT1", ""}}

\* A row with two seats of PL1 (10, 11) and two of PL2 (12, 13), where an
\* override on seat 10 moves the mean price of PL1.
TieScenarios ==
    {Results(Price(<< PriceLevel("PL1", 2000, 200, {LetTaxId}, {LetTaxId}, "PT1"),
                      PriceLevel("PL2", base2, 200, {LetTaxId}, {LetTaxId}, "PT1") >>,
                   FixedFee(300, {LetTaxId}), LetTax(10), raw),
             << [offerID |-> "O1", offerType |-> "STANDARD",
                 items |-> [i \in 1..4 |->
                               Item("A", 9 + i,
                                    IF i <= 2 THEN "PL1" ELSE "PL2", << >>)]] >>) :
        base2 \in {1000, 2000, 3000},
        raw \in {NoDynamicPrices}
                \cup {[k \in {<< "PT1", "S1", "R1", 10, "PL1" >>} |-> v] :
                         v \in {1500, 3000}}}

\* The capture of the worked example: base 2000 and facility fee 200, both
\* taxed, a fixed per-item fee of 300, taxed, tax rate 10, seats 10..13.
ExampleCapture ==
    Results(Price(<< PriceLevel("PL1", 2000, 200, {LetTaxId}, {LetTaxId}, "PT1") >>,
                  FixedFee(300, {LetTaxId}), LetTax(10), NoDynamicPrices),
            Row10to13)

\* price with one offer, one zone and one price level, the given root fees
\* and the given fees assigned to the offer.
PriceWithFees(level, fees, offerFees, taxes) ==
    [fees |-> fees,
     taxes |-> taxes,
     offerPrices |-> << [offerID |-> "O1",
                         fees |-> offerFees,
                         zonePrices |->
                             << [rawDynamicPrices |-> NoDynamicPrices,
                                 priceLevels |-> << level >>] >>] >>]

\* Fee F1: a fixed component of 1.00, a component of a calculation method
\* the program does not know, and a Lookup component none of whose ranges
\* contains the base of 22.00.  Fee F2: a fixed component of 3.00.
RootFee(id, applicationMethod) ==
    [id |-> id, applicationMethod |-> applicationMethod,
     components |->
         IF id = "F1"
         THEN << FixedFee(100, {LetTaxId}),
                 FeeComponent("Tiered", << >>, << >>, << >>, << 700 >>,
                              {LetTaxId}),
                 FeeComponent("Lookup", << Range(200, 300, 900) >>, << >>,
                              << >>, << >>, {LetTaxId}) >>
         ELSE << FixedFee(300, {LetTaxId}) >>]

\* The root fee list and the fees of the offer: each of F1 and F2 is
\* defined at root level as a per-item fee, as a per-order fee or not at
\* all, and is assigned to the offer or not.
AssignScenarios ==
    {Results(PriceWithFees(
                 PriceLevel("PL1", 2000, 200, {LetTaxId}, {LetTaxId}, "PT1"),
                 (IF m1 = "none" THEN << >> ELSE << RootFee("F1", m1) >>)
                     \o (IF m2 = "none" THEN << >> ELSE << RootFee("F2", m2) >>),
                 (IF a2 THEN << [id |-> "F2"] >> ELSE << >>)
                     \o (IF a1 THEN << [id |-> "F1"] >> ELSE << >>),
                 LetTax(10)),
             Row10to11) :
        m1 \in {"PerItem", "PerOrder", "none"},
        m2 \in {"PerItem", "PerOrder", "none"},
        a1 \in BOOLEAN, a2 \in BOOLEAN}

\* The capture of the worked example with a connection fee on its section.
ConnectionScenarios ==
    {[ExampleCapture EXCEPT !.sections =
          [l \in {"101"} |-> [connectionFee |-> << fee >>]]] :
        fee \in {0, 150}}

\* The seat 9 + i of row A with the given availability status.
ItemWithStatus(i, status) ==
    [Item("A", 9 + i, "PL1", << >>) EXCEPT !.statusCodeLabel = << status >>]

\* The capture of the worked example with the seats 10 to 12, each of them
\* available, sold, or an accessible seat by its status.
StatusScenarios ==
    {[ExampleCapture EXCEPT !.offerSearch.offers =
          << [offerID |-> "O1", offerType |-> "STANDARD",
              items |-> [i \in 1..3 |-> ItemWithStatus(i, status[i])]] >>] :
        status \in [1..3 -> {"Available", "Sold", "Accessible"}]}

Scenarios == SeatScenarios \cup {LongRowScenario, ExampleCapture}
             \cup FeeScenarios \cup DynamicScenarios \cup TieScenarios
             \cup AssignScenarios \cup ConnectionScenarios

\* The captures with a varied row, the captures with overrides and the
\* captures with a varied availability status.
SelectionScenarios == SeatScenarios \cup DynamicScenarios \cup StatusScenarios

(***************************************************************************)
(* parseAXSTickets as a sequence of steps.                                 *)
(***************************************************************************)
\* The state at a call of parseAXSTickets with one of the given captures.
EngineStart(captures) ==
    /\ ScrapeInit
    /\ env = EnvTiming
    /\ MatchIdle
    /\ GroupIdle
    /\ axsResults \in captures
    /\ epc = "start"
    /\ priceLevelsMap = << >>
    /\ sectionRowPriceSeats = << >>
    /\ rowIndex = 0
    /\ tickets = << >>
    /\ calls = 0
    /\ firstTickets = << >>

EngineInit == EngineStart(Scenarios)

SelectionInit == EngineStart(SelectionScenarios)

\* const priceLevelsMap = buildPriceLevelsMap(axsResults)
BuildPriceLevelsMap ==
    /\ epc = "start"
    /\ priceLevelsMap' = buildPriceLevelsMap(axsResults, PriceLevelIds)
    /\ epc' = "firstPass"
    /\ UNCHANGED << scrapeVars, matchVars, groupVars, axsResults,
                    sectionRowPriceSeats, rowIndex, tickets, calls,
                    firstTickets >>

\* First pass: collect all valid seats.
CollectValidSeats ==
    /\ epc = "firstPass"
    /\ sectionRowPriceSeats' =
           LET read == readItems(axsResults.offerSearch.offers)
           IN  collectSeats(read, Len(read))
    /\ rowIndex' = 1
    /\ epc' = "secondPass"
    /\ UNCHANGED << scrapeVars, matchVars, groupVars, axsResults,
                    priceLevelsMap, tickets, calls, firstTickets >>

\* One iteration of the second pass.
ProcessSectionRow ==
    /\ epc = "secondPass"
    /\ rowIndex <= Len(sectionRowPriceSeats)
    /\ tickets' = tickets \o ticketsOf(sectionRowPriceSeats[rowIndex],
                                       priceLevelsMap, axsResults)
    /\ rowIndex' = rowIndex + 1
    /\ UNCHANGED << scrapeVars, matchVars, groupVars, axsResults, epc,
                    priceLevelsMap, sectionRowPriceSeats, calls,
                    firstTickets >>

\* return tickets
ReturnTickets ==
    /\ epc = "secondPass"
    /\ rowIndex > Len(sectionRowPriceSeats)
    /\ epc' = "returned"
    /\ calls' = calls + 1
    /\ firstTickets' = IF calls = 0 THEN tickets ELSE firstTickets
    /\ UNCHANGED << scrapeVars, matchVars, groupVars, axsResults,
                    priceLevelsMap, sectionRowPriceSeats, rowIndex, tickets >>

\* A second call of parseAXSTickets with the same argument.
CallAgain ==
    /\ epc = "returned"
    /\ calls = 1
    /\ epc' = "start"
    /\ priceLevelsMap' = << >>
    /\ sectionRowPriceSeats' = << >>
    /\ rowIndex' = 0
    /\ tickets' = << >>
    /\ UNCHANGED << scrapeVars, matchVars, groupVars, axsResults, calls,
                    firstTickets >>

EngineNext ==
    \/ BuildPriceLevelsMap
    \/ CollectValidSeats
    \/ ProcessSectionRow
    \/ ReturnTickets
    \/ CallAgain

EngineSpec == EngineInit /\ [][EngineNext]_vars

\* parseAXSTickets on the captures of the level selection, of the
\* representative pricing and of the availability filter.
SelectionSpec == SelectionInit /\ [][EngineNext]_vars

(***************************************************************************)
(* Properties.                                                             *)
(***************************************************************************)
TeardownPcs == {"catch", "finallyPage", "finallyBrowser", "done"}

Count(log, x) == Cardinality({i \in 1..Len(log) : log[i] = x})

\* The browser was connected (BrowserConnectionError is thrown by
\* initBrowser only).
Connected == pc \notin {"start", "connect"} /\ err # "BrowserConnectionError"

\* The URL each target endpoint is served at.
EndpointUrl == [sections |-> UrlSections, offer_search |-> UrlOffer,
                price |-> UrlPrice]

\* A 200 response of target k with a readable body has been delivered.
Delivered(k) == inventoryResponses[EndpointUrl[k]] # "absent"

\* C1: when the blocking modal is on the page at the failure of a captcha
\* attempt, the run does nothing but inspect the page and then fail with
\* ScraperBlockedError: it does not reload, does not start another attempt,
\* and no other error reaches the caller.
C1_BlockedFailsImmediately ==
    (modal = "blocked" /\ solvedBy = "none" /\ captchaRetries > 0)
        => /\ pc \in {"modalCheck"} \cup TeardownPcs
           /\ pc \in TeardownPcs => err = "ScraperBlockedError"

\* C2: three failed captcha waits with no blocking modal end the run with
\* CaptchaTimeoutError; at most 3 attempts are started; the capture phase
\* is entered only after an attempt whose race resolved.
C2_CaptchaBound ==
    /\ attempts <= 3
    /\ captchaRetries <= attempts
    /\ (captchaRetries = 3 /\ modal # "blocked" /\ blockedLog = "none")
          => (pc \in TeardownPcs /\ err = "CaptchaTimeoutError")
    /\ (phase.name \in {"capture", "refresh"} \/ pricingCalls > 0)
          => (solvedBy # "none" /\ captchaRetries < attempts)

C2_Witness ==
    /\ pc = "done"
    /\ captchaRetries = 3
    /\ attempts = 3
    /\ modal # "blocked"
    /\ err = "CaptchaTimeoutError"

\* C3: browser.close is never invoked twice, page.close is never invoked
\* twice, and a finished run that had connected the browser (opened a page)
\* has invoked browser.close (page.close) exactly once.
C3_CloseExactlyOnce ==
    /\ Count(closeLog, "browser") <= 1
    /\ Count(closeLog, "page") <= 1
    /\ (pc = "done" /\ Connected) => Count(closeLog, "browser") = 1
    /\ (pc = "done" /\ page = "handle") => Count(closeLog, "page") = 1

\* C4: no browser.close call precedes a page.close call.
C4_PageClosedBeforeBrowser ==
    \A i, j \in 1..Len(closeLog) :
        (closeLog[i] = "browser" /\ closeLog[j] = "page") => j < i

\* C5: no page operation is started in a phase (navigation, captcha
\* attempt, data capture, refresh recovery) that began with more than
\* MAX_SESSION_TIME elapsed, and a phase that began so has failed the run
\* with the session-timeout error.
C5_NoWorkOverBudget ==
    /\ lastOp.phase \in {"navigation", "captcha", "capture", "refresh"}
          => lastOp.start <= 300
    /\ (phase.name # "setup" /\ phase.start > 300)
          => /\ pc \in TeardownPcs
             /\ err = "DataCaptureError"
             /\ errMsg = "sessionTimeout"

C5_Witness ==
    /\ phase.name = "refresh"
    /\ phase.start > 300
    /\ lastOp.op = "captureWait"
    /\ errMsg = "sessionTimeout"

\* C6: a run that failed to connect carries BrowserConnectionError with
\* needsSessionClose = false, called connect once, opened no page, started
\* no page operation and invoked no close.
C6_ConnectFailure ==
    /\ connectCalls <= 1
    /\ (pc \in {"start", "connect"} \/ err = "BrowserConnectionError")
          => /\ browser = "null"
             /\ page = "null"
             /\ lastOp = NoOp
             /\ closeLog = << >>
    /\ errMsg \in {"connectFailed", "connectTimeout"}
          => /\ err = "BrowserConnectionError"
             /\ ~needsSessionClose(err)
             /\ connectCalls = 1
             /\ pc = "done" => result = "thrown"

C6_Witness ==
    /\ pc = "done"
    /\ errMsg = "connectTimeout"
    /\ result = "thrown"

\* C7: whenever all three found flags are true, the completion signal has
\* been resolved.
C7_SignalWhenAllFound == allFound(found) => allResponsesCaptured

\* C8: the pricing engine is invoked, and tickets are returned, only when
\* all three target endpoints were delivered and recorded; a run that ends
\* with a target unrecorded after the post-refresh wait had started ends
\* with DataCaptureError and without a call of the pricing engine.
C8_TicketsOnlyIfCaptured ==
    /\ (pricingCalls > 0 \/ result = "tickets")
          => \A k \in Keys : Delivered(k) /\ capturedResponses[k] # "absent"
    /\ result = "tickets" => pricingCalls = 1
    /\ (pc = "done" /\ finalTimeout > 0
            /\ \E k \in Keys : capturedResponses[k] = "absent")
          => /\ result = "thrown"
             /\ err = "DataCaptureError"
             /\ pricingCalls = 0

C8_Witness ==
    /\ pc = "done"
    /\ finalTimeout > 0
    /\ \E k \in Keys : capturedResponses[k] = "absent"
    /\ \E k \in Keys : capturedResponses[k] # "absent"
    /\ err = "DataCaptureError"

\* A stored response that a recovery pass would record: its URL matches a
\* target that is not filled.
Recoverable(u) ==
    /\ inventoryResponses[u] # "absent"
    /\ firstMatch(u) # 0
    /\ capturedResponses[targetEndpoints[firstMatch(u)].filename] = "absent"

\* C9: when the final capture wait has failed the run, no stored response
\* is left unrecorded for an unfilled target, and some target is unfilled.
C9_RecoveryBeforeFailure ==
    errMsg = "captureTimeout"
        => /\ \A u \in Urls : ~Recoverable(u)
           /\ \E k \in Keys : capturedResponses[k] = "absent"

\* C10: once page.goto has started (and so for every later reload), the
\* 'response' listener is attached and setupCDPNetworkMonitoring has
\* finished.
C10_ListenersBeforeNavigation ==
    (lastOp.op # "none" \/ pc \in {"goto", "captchaWait", "reload"})
        => (respListener /\ cdpSetup \in {"ok", "failed"})

C10_Witness ==
    /\ pc = "goto"
    /\ lastOp.op = "goto"
    /\ cdpSetup = "failed"
    /\ respListener

\* The literal segments parts[k..] occur in url one after the other, the
\* first of them at or after position from.
RECURSIVE occursInOrder(_, _, _, _)
occursInOrder(parts, k, url, from) ==
    IF k > Len(parts)
    THEN TRUE
    ELSE \E i \in from..(Len(url) + 1) :
            /\ i + Len(parts[k]) - 1 <= Len(url)
            /\ SubSeq(url, i, i + Len(parts[k]) - 1) = parts[k]
            /\ occursInOrder(parts, k + 1, url, i + Len(parts[k]))

\* C11: a URL matches a pattern iff the literal segments of the pattern
\* (split on "*") all occur in the URL in the order of the pattern, in both
\* capture channels; "/a/*/b" matches "/a/123/b" and not "/a/b".
C11_OrderedPatternMatch ==
    mChannel # "none" =>
        (mResult <=> occursInOrder(split(mPattern, "*"), 1, mUrl, 1))

\* The seat numbers of a group, in order.
Numbers(group) == [i \in 1..Len(group) |-> group[i].number]

\* The numbers s, s+1, ..., s+m-1 are all in S.
RunAt(S, s, m) == \A k \in 0..(m - 1) : s + k \in S

\* Length of the longest run of consecutive numbers in S.
LongestRun(S) ==
    CHOOSE m \in 0..Cardinality(S) :
        /\ m > 0 => \E s \in S : RunAt(S, s, m)
        /\ \A n \in (m + 1)..Cardinality(S) : ~\E s \in S : RunAt(S, s, n)

\* The group expected of the seats S: the lowest run of min(4, L) numbers.
ExpectedGroup(S) ==
    LET L == LongestRun(S)
        m == IF L < 4 THEN L ELSE 4
    IN  IF L < 2 THEN << >>
        ELSE LET s == CHOOSE x \in S :
                          /\ RunAt(S, x, m)
                          /\ \A y \in S : RunAt(S, y, m) => x <= y
             IN  [k \in 1..m |-> s + k - 1]

\* C13: on distinct seat numbers sorted ascending the grouper returns the
\* lowest run of min(4, L) consecutive numbers, L being the length of the
\* longest run, and the empty group iff L < 2.
C13_BestGroup ==
    gDone =>
        LET S == {gSeats[i].number : i \in 1..Len(gSeats)}
        IN  /\ Numbers(gBest) = ExpectedGroup(S)
            /\ (gBest = << >>) <=> (LongestRun(S) < 2)

\* [1,2,3,5,6,7,8] (the spec example less 100) gives [5,6,7,8].
C13_Witness ==
    /\ gDone
    /\ Numbers(gSeats) = << 1, 2, 3, 5, 6, 7, 8 >>
    /\ Numbers(gBest) = << 5, 6, 7, 8 >>

(***************************************************************************)
(* Properties of the pricing engine.                                       *)
(***************************************************************************)
\* The seat numbers written in a comma-joined seats field.
SeatNumbersOf(seats) ==
    [i \in 1..((Len(seats) + 1) \div 2) |-> parseInt(seats[2 * i - 1])]

\* C12: every ticket has a quantity of 2 to 4, which is the number of seat
\* numbers in its comma-joined seats field, and those numbers are
\* consecutive and ascending.
C12_TicketQuantity ==
    \A t \in 1..Len(tickets) :
        LET numbers == SeatNumbersOf(tickets[t].seats)
        IN  /\ tickets[t].quantity \in 2..4
            /\ Len(tickets[t].seats) = 2 * tickets[t].quantity - 1
            /\ \A i \in 1..Len(tickets[t].seats) :
                  (tickets[t].seats[i] = ",") <=> (i % 2 = 0)
            /\ Len(numbers) = tickets[t].quantity
            /\ \A i \in 1..(Len(numbers) - 1) : numbers[i + 1] = numbers[i] + 1

\* A row of more than four consecutive seats yields a ticket of four.
C12_Witness ==
    /\ epc = "returned"
    /\ axsResults = LongRowScenario
    /\ Len(tickets) = 1
    /\ tickets[1].quantity = 4

\* The items of the capture, each with the type of its offer.
OfferedItems ==
    UNION {{[item |-> axsResults.offerSearch.offers[o].items[i],
             offerType |-> axsResults.offerSearch.offers[o].offerType] :
               i \in 1..Len(axsResults.offerSearch.offers[o].items)} :
           o \in 1..Len(axsResults.offerSearch.offers)}

\* The item is flagged restricted or accessible, in any letter case, by an
\* attribute or by its status label.
Flagged(item) ==
    \/ \E a \in 1..Len(item.attributes) : \E w \in 1..Len(item.attributes[a]) :
          item.attributes[a][w] \in {"Restricted", "RESTRICTED", "restricted",
                                     "Accessible", "ACCESSIBLE", "accessible"}
    \/ item.statusCodeLabel \in {<< "Accessible" >>, << "ACCESSIBLE" >>,
                                 << "accessible" >>}

\* The seats the claims call eligible: not of a resale offer, not flagged.
Eligible ==
    {x.item : x \in {y \in OfferedItems :
                        y.offerType # "FLASHSEATS" /\ ~Flagged(y.item)}}

\* The eligible seats of a section/row (by labels) at one price level.
EligibleAt(section, row, level) ==
    {i \in Eligible : /\ i.sectionLabel = section
                      /\ i.rowLabel = row
                      /\ i.priceLevelID = level}

\* Sum of the display prices calculateSeatPricing gives for the seats.
RECURSIVE DisplayTotal(_, _)
DisplayTotal(items, level) ==
    IF items = {} THEN 0
    ELSE LET i == CHOOSE x \in items : TRUE
         IN  Plus(calculateSeatPricing(priceLevelsMap[level], i.sectionID,
                                       i.rowID, i.id).websiteDisplayPrice,
                  DisplayTotal(items \ {i}, level))

Indexed == {l \in PriceLevelIds : priceLevelsMap[l].present}

\* C14: the seats of a ticket are of one price level, the indexed level
\* with the most eligible seats in the section/row and, among levels with
\* as many, of the lower mean display price.
C14_OnePriceLevel ==
    \A t \in 1..Len(tickets) :
        LET tk == tickets[t]
            at(l) == EligibleAt(tk.section, tk.row, l)
            n(l) == Cardinality(at(l))
        IN  /\ tk.priceLevelId \in Indexed
            /\ \A l \in Indexed : n(l) <= n(tk.priceLevelId)
            /\ \A l \in Indexed :
                  n(l) = n(tk.priceLevelId) =>
                      DisplayTotal(at(l), l) >=
                          DisplayTotal(at(tk.priceLevelId), tk.priceLevelId)
            /\ \A i \in 1..Len(tk.seatIds) :
                  \E x \in at(tk.priceLevelId) : x.id = tk.seatIds[i]

\* Two price levels have two seats each, and the ticket is of the second
\* one, which is cheaper.
C14_Witness ==
    /\ epc = "returned"
    /\ axsResults \in TieScenarios
    /\ Len(tickets) = 1
    /\ tickets[1].priceLevelId = "PL2"
    /\ Cardinality(EligibleAt("101", "A", "PL1")) = 2
    /\ DisplayTotal(EligibleAt("101", "A", "PL2"), "PL2")
           < DisplayTotal(EligibleAt("101", "A", "PL1"), "PL1")

\* C15: no ticket lists a seat of a resale offer or a flagged seat; such
\* seats are not among the seats collected for grouping.
C15_NoFilteredSeats ==
    /\ \A t \in 1..Len(tickets) : \A i \in 1..Len(tickets[t].seatIds) :
          \E x \in Eligible : x.id = tickets[t].seatIds[i]
    /\ \A g \in 1..Len(sectionRowPriceSeats) :
          \A k \in 1..Len(sectionRowPriceSeats[g].seats) :
              \E x \in Eligible : x.id = sectionRowPriceSeats[g].seats[k].seatId

\* Seats 1 and 3 are eligible, seat 2 between them is flagged or resold,
\* and the row yields no ticket.
C15_Witness ==
    /\ epc = "returned"
    /\ axsResults \in SeatScenarios
    /\ \E x \in EligibleAt("101", "A", "PL1") : x.id = 1
    /\ \E x \in EligibleAt("101", "A", "PL1") : x.id = 3
    /\ \E y \in OfferedItems : y.item.id = 2 /\ y.item \notin Eligible
    /\ \A t \in 1..Len(tickets) : tickets[t].row # "A"

\* The single fee component of the capture and the base it is applied to.
TheComponent == axsResults.price.fees[1].components[1]

TheBase ==
    axsResults.price.offerPrices[1].zonePrices[1].priceLevels[1].prices[1].base

TheLevel == priceLevelsMap["PL1"]

OneFeeCapture == axsResults \in FeeScenarios /\ epc \in {"firstPass", "secondPass", "returned"}

ExampleRanges == << Range(0, 100, 500), Range(100, 0, 1000) >>

\* C16: a Lookup component gives the amount of the first range, in list
\* order, with start <= base/100 and (end = 0 or base/100 < end); with the
\* ranges [{0,100,$5},{100,0,$10}], $50 gives $5, $500 and $100 give $10.
C16_LookupFee ==
    (OneFeeCapture /\ TheComponent.calculationMethod = "Lookup") =>
        LET ranges == TheComponent.lookupRanges
            contains(i) == /\ ranges[i].start * 100 <= TheBase
                           /\ (ranges[i].end = 0 \/ TheBase < ranges[i].end * 100)
        IN  /\ \A i \in 1..Len(ranges) :
                  (contains(i) /\ \A j \in 1..(i - 1) : ~contains(j))
                      => TheLevel.feeAmounts[1] = Cents(ranges[i].amount)
            /\ (ranges = ExampleRanges /\ TheBase = 5000)
                  => TheLevel.feeAmounts[1] = Cents(500)
            /\ (ranges = ExampleRanges /\ TheBase \in {10000, 50000})
                  => TheLevel.feeAmounts[1] = Cents(1000)

\* Two ranges contain the base and the first of them gives the amount.
C16_Witness ==
    /\ OneFeeCapture
    /\ TheComponent.calculationMethod = "Lookup"
    /\ TheComponent.lookupRanges = << Range(0, 0, 500), Range(0, 100, 700) >>
    /\ TheBase = 5000
    /\ TheLevel.feeAmounts[1] = Cents(500)

\* C17: a Percentage component with a numeric roundOff r gives the multiple
\* of r nearest to base*rate/100; without roundOff it gives base*rate/100.
C17_PercentageFee ==
    (OneFeeCapture /\ TheComponent.calculationMethod = "Percentage") =>
        LET exact == Percent(Cents(TheBase), TheComponent.rate[1])
            amount == TheLevel.feeAmounts[1]
            diff == IF amount >= exact THEN amount - exact ELSE exact - amount
        IN  IF TheComponent.roundOff = << >>
            THEN amount = exact
            ELSE LET r == Cents(TheComponent.roundOff[1])
                 IN  /\ ~isNaN(amount)
                     /\ IF r = 0 THEN amount = 0 ELSE amount % r = 0
                     /\ 2 * diff <= r
                     /\ (TheBase = 10000 /\ TheComponent.rate[1] = 3
                         /\ TheComponent.roundOff[1] = 25)
                            => amount = Cents(300)

\* The components tagged with the designated tax id: their amounts.
TaggedAmounts ==
    LET comps == axsResults.price.offerPrices[1].zonePrices[1].priceLevels[1]
                     .prices[1].priceComponents
    IN  Plus(SumAmounts([i \in 1..Len(comps) |->
                            IF "1001" \in comps[i].taxIds
                            THEN Cents(comps[i].amount) ELSE 0]),
             IF "1001" \in TheComponent.taxIds THEN TheLevel.feeAmounts[1]
                                               ELSE 0)

NothingTagged ==
    LET comps == axsResults.price.offerPrices[1].zonePrices[1].priceLevels[1]
                     .prices[1].priceComponents
    IN  /\ \A i \in 1..Len(comps) : "1001" \notin comps[i].taxIds
        /\ "1001" \notin TheComponent.taxIds

\* C18: the taxable base is the sum of the amounts of the price components
\* and fee components tagged with tax id "1001", totalTax is that base
\* times the rate of tax 1001 over 100, and it is 0 when nothing is tagged.
C18_TaxableBase ==
    OneFeeCapture =>
        /\ TheLevel.taxableAmount = TaggedAmounts
        /\ \A i \in 1..Len(axsResults.price.taxes) :
              axsResults.price.taxes[i].id = "1001" =>
                  TheLevel.totalTax =
                      Percent(TaggedAmounts, axsResults.price.taxes[i].rate)
        /\ NothingTagged => TheLevel.totalTax = 0

\* The base component and the fee are tagged, the facility fee is not, and
\* the tax is a tenth of their sum.
C18_Witness ==
    /\ OneFeeCapture
    /\ TheBase = 2200
    /\ TheComponent = FixedFee(300, {LetTaxId})
    /\ axsResults.price.taxes = LetTax(10)
    /\ TheLevel.taxableAmount = Cents(2300)
    /\ TheLevel.totalTax = Cents(230)

\* C19: the face price of a seat whose key is in the override table is the
\* override value, whatever it is, and isDynamicPricing is true; without
\* the key it is base component plus facility fee, and isDynamicPricing is
\* false.
C19_OverrideFacePrice ==
    (axsResults \in DynamicScenarios /\ Len(tickets) = 1) =>
        LET level == axsResults.price.offerPrices[1].zonePrices[1].priceLevels[1]
            raw == axsResults.price.offerPrices[1].zonePrices[1].rawDynamicPrices
            key == << level.prices[1].priceTypeID, "S1", "R1",
                      tickets[1].seatIds[1], "PL1" >>
        IN  IF key \in DOMAIN raw
            THEN tickets[1].face_price = raw[key] /\ tickets[1].isDynamicPricing
            ELSE /\ tickets[1].face_price = level.prices[1].base
                 /\ ~tickets[1].isDynamicPricing

\* C20: the worked example gives exactly one ticket, section and row as
\* given, seats "10,11,12,13", quantity 4, face_price 22.00 and taxed_cost
\* 5.50, and a second run gives the same ticket.
C20_WorkedExample ==
    (axsResults = ExampleCapture /\ epc = "returned") =>
        /\ Len(tickets) = 1
        /\ tickets[1].section = "101"
        /\ tickets[1].row = "A"
        /\ tickets[1].seats = << "10", ",", "11", ",", "12", ",", "13" >>
        /\ tickets[1].quantity = 4
        /\ tickets[1].face_price = 2200
        /\ tickets[1].taxed_cost = 550
        /\ tickets = firstTickets

C20_Witness ==
    /\ axsResults = ExampleCapture
    /\ epc = "returned"
    /\ calls = 2
    /\ Len(tickets) = 1

(***************************************************************************)
(* Properties of the capture orchestrator, continued.                      *)
(***************************************************************************)
\* C21: whatever step failed, the error that reaches the caller is one of
\* BrowserConnectionError, CaptchaTimeoutError, ScraperBlockedError and
\* DataCaptureError.
C21_TypedErrors ==
    /\ err # "none" => err \in ErrorClasses
    /\ result = "thrown" => err \in ErrorClasses

\* C22: every key of capturedResponses holds a non-empty payload, and a
\* found flag is set only on a non-empty body.
C22_NonEmptyPayload ==
    \A k \in Keys :
        /\ capturedResponses[k] # "rawEmpty"
        /\ found[k] => capturedResponses[k] \in {"object", "rawText"}

(***************************************************************************)
(* Properties of the pricing engine, continued.                            *)
(***************************************************************************)
\* A whole number of cents.
isCents(x) == ~isNaN(x) /\ x % Unit = 0

\* C23: the per-item fee amounts, totalFees, totalTax and
\* websiteDisplayPrice of buildPriceLevelsMap and of calculateSeatPricing
\* are whole numbers of cents whenever the component amounts, rates and
\* roundOff of the capture are integers.
C23_IntegralCents ==
    OneFeeCapture =>
        LET seatPricing == calculateSeatPricing(TheLevel, "S1", "R1", 10)
        IN  /\ \A i \in 1..Len(TheLevel.feeAmounts) : isCents(TheLevel.feeAmounts[i])
            /\ isCents(TheLevel.totalFees)
            /\ isCents(TheLevel.totalTax)
            /\ isCents(TheLevel.websiteDisplayPrice)
            /\ isCents(seatPricing.totalFees)
            /\ isCents(seatPricing.totalTax)
            /\ isCents(seatPricing.websiteDisplayPrice)

\* Position of a refresh strategy in the order primary selector, button
\* text, page reload.
StrategyOf(entry) ==
    CASE entry \in {"primary:ok", "primary:failed"} -> 1
      [] entry \in {"text:ok", "text:none", "text:threw"} -> 2
      [] OTHER -> 3

Succeeded(entry) == entry \in {"primary:ok", "text:ok", "reload:ok"}

\* C24: the refresh strategies are tried in the order primary selector,
\* button text, page reload; a later one is tried only after every earlier
\* one did not succeed; a strategy that failed or threw is followed by the
\* next one; and the second capture wait starts only after a strategy was
\* carried out.
C24_RefreshOrder ==
    /\ \A i \in 1..Len(refreshLog) : StrategyOf(refreshLog[i]) = i
    /\ \A i \in 1..(Len(refreshLog) - 1) : ~Succeeded(refreshLog[i])
    /\ (/\ refreshLog # << >>
        /\ ~Succeeded(refreshLog[Len(refreshLog)])
        /\ StrategyOf(refreshLog[Len(refreshLog)]) < 3)
          => pc \in {"refreshByText", "refreshReload"}
    /\ (pc = "capture2" \/ finalTimeout > 0)
          => (refreshLog # << >> /\ Succeeded(refreshLog[Len(refreshLog)]))

\* C25: the timeout of the post-refresh capture wait is at most the session
\* budget that remains when the wait starts (MAX_SESSION_TIME less the
\* elapsed time).
C25_FinalTimeoutWithinBudget ==
    (pc = "capture2" \/ finalTimeout > 0) => finalTimeout <= finalRemaining

\* C26: the pre-flow 'request' handlers and the captcha-event listeners
\* attached are at most those of one attempt, and none is attached once an
\* attempt has ended (between attempts and after the gate).
C26_ListenersDetached ==
    /\ preFlowHandlers <= 1
    /\ captchaClients <= 1
    /\ (attempts > 0 /\ pc # "captchaWait")
          => (preFlowHandlers = 0 /\ captchaClients = 0)

\* The complete value of a body: the parsed JSON, or the full raw text.
CompleteValue == [json |-> "object", text |-> "rawText", empty |-> "rawEmpty"]

\* Every key of capturedResponses holds the complete value of the response
\* of its target that was recorded last.
WholeValues ==
    \A k \in Keys :
        /\ found[k] <=> capturedResponses[k] # "absent"
        /\ capturedResponses[k] # "absent"
              => /\ inventoryResponses[EndpointUrl[k]] \in DOMAIN CompleteValue
                 /\ capturedResponses[k] =
                        CompleteValue[inventoryResponses[EndpointUrl[k]]]

\* A step changes the value or the found flag of a key only by recording a
\* response of that target other than the one recorded last: a second
\* delivery of the same response changes neither.
DuplicateChangesNothing ==
    \A k \in Keys :
        (capturedResponses'[k] # capturedResponses[k] \/ found'[k] # found[k])
            => inventoryResponses'[EndpointUrl[k]]
                   # inventoryResponses[EndpointUrl[k]]

TheOverrides == axsResults.price.offerPrices[1].zonePrices[1].rawDynamicPrices

KeyOfSeat(seatId) ==
    << axsResults.price.offerPrices[1].zonePrices[1].priceLevels[1]
           .prices[1].priceTypeID, "S1", "R1", seatId, "PL1" >>

\* C28: in the captures with overrides (fee 3.00, tax 2.50 on the price
\* level), calculateSeatPricing returns these fees and this tax for every
\* seat, with or without an override; a seat without an override of its own
\* is priced as in a capture without overrides; taxed_cost is 5.50.
C28_OverrideKeepsFeesAndTax ==
    (axsResults \in DynamicScenarios /\ epc \in {"firstPass", "secondPass", "returned"}) =>
        /\ \A seatId \in 10..13 :
              LET p == calculateSeatPricing(TheLevel, "S1", "R1", seatId)
              IN  /\ p.totalFees = Cents(300)
                  /\ p.totalTax = Cents(250)
                  /\ p.facilityFee = Cents(200)
                  /\ KeyOfSeat(seatId) \notin DOMAIN TheOverrides
                        => /\ p.basePrice = Cents(2000)
                           /\ p.websiteDisplayPrice = Cents(2750)
                           /\ ~p.isDynamicPricing
        /\ \A t \in 1..Len(tickets) : tickets[t].taxed_cost = 550

\* Seats 10 and 11 both have an override, the ticket takes the face price
\* 15.00 of seat 10, and its taxed cost is that of the price level.
C28_Witness ==
    /\ axsResults \in DynamicScenarios
    /\ epc = "returned"
    /\ KeyOfSeat(10) \in DOMAIN TheOverrides
    /\ KeyOfSeat(11) \in DOMAIN TheOverrides
    /\ Len(tickets) = 1
    /\ tickets[1].isDynamicPricing
    /\ tickets[1].face_price = 1500
    /\ tickets[1].taxed_cost = 550

\* The fee of the given id counts: it is among the fees of the offer, and
\* the root fee list defines it as a per-item fee.
Contributes(id) ==
    LET price == axsResults.price
    IN  /\ \E i \in 1..Len(price.offerPrices[1].fees) :
              price.offerPrices[1].fees[i].id = id
        /\ \E j \in 1..Len(price.fees) :
              /\ price.fees[j].id = id
              /\ price.fees[j].applicationMethod = "PerItem"

\* The fees expected of the capture: 1.00 of F1 and 3.00 of F2.
ExpectedFees ==
    (IF Contributes("F1") THEN Cents(100) ELSE 0)
        + (IF Contributes("F2") THEN Cents(300) ELSE 0)

\* C29: totalFees and the taxable base take the amount of a fee only if the
\* fee is assigned to the offer, defined in the root fee list and applied
\* per item; a fee that is not assigned, not defined or applied otherwise,
\* a Lookup component without a containing range and a component of an
\* unknown calculation method add nothing.
C29_OnlyAssignedPerItemFees ==
    (axsResults \in AssignScenarios /\ epc \in {"firstPass", "secondPass", "returned"}) =>
        /\ TheLevel.totalFees = ExpectedFees
        /\ TheLevel.taxableAmount = Cents(2200) + ExpectedFees
        /\ TheLevel.totalTax = (Cents(2200) + ExpectedFees) \div 10
        /\ (Contributes("F1") /\ ~Contributes("F2"))
              => TheLevel.feeAmounts = << Cents(100), 0, 0 >>

\* F1 and F2 are both defined and assigned; F2 is a per-order fee, and only
\* the 1.00 of F1 is in totalFees.
C29_Witness ==
    /\ axsResults \in AssignScenarios
    /\ epc = "returned"
    /\ Len(axsResults.price.fees) = 2
    /\ Len(axsResults.price.offerPrices[1].fees) = 2
    /\ axsResults.price.fees[2].applicationMethod = "PerOrder"
    /\ TheLevel.totalFees = Cents(100)
    /\ Len(tickets) = 1

\* The amount is the number of cents nearest to x.
NearestCent(amount, x) ==
    IF isNaN(x) THEN isNaN(amount)
    ELSE /\ ~isNaN(amount)
         /\ 2 * (amount * Unit - x) <= Unit
         /\ 2 * (x - amount * Unit) <= Unit

\* face_price and taxed_cost of a ticket of a capture with one price level
\* and no overrides are (base + facility fee) and (fees + tax) of the level,
\* each rounded to the cent.
RoundedApart(ticket) ==
    (axsResults \in FeeScenarios \cup AssignScenarios \cup ConnectionScenarios) =>
        /\ NearestCent(ticket.face_price,
                       Plus(TheLevel.basePrice, TheLevel.facilityFee))
        /\ NearestCent(ticket.taxed_cost,
                       Plus(TheLevel.totalFees, TheLevel.totalTax))

\* C30: cost = face_price + taxed_cost for every ticket, face_price and
\* taxed_cost being (base + facility fee) and (fees + tax) rounded to two
\* decimals each; nothing else enters cost.
C30_CostIsFacePlusTaxed ==
    \A t \in 1..Len(tickets) :
        /\ tickets[t].cost = Plus(tickets[t].face_price, tickets[t].taxed_cost)
        /\ RoundedApart(tickets[t])

\* The connection fee of the section of a ticket, in cents (connectionFee
\* when it is a number, 0 otherwise).
SectionConnectionFee(ticket) ==
    LET fee == axsResults.sections[ticket.section].connectionFee
    IN  IF fee = << >> THEN 0 ELSE fee[1]

\* C30 as amended: cost = face_price + taxed_cost + connection_fee for every
\* ticket, connection_fee being the connection fee of the section of the
\* ticket, and the three of them rounded to two decimals each.
C30_CostWithConnectionFee ==
    \A t \in 1..Len(tickets) :
        /\ tickets[t].cost =
               Plus(Plus(tickets[t].face_price, tickets[t].taxed_cost),
                    SectionConnectionFee(tickets[t]))
        /\ tickets[t].connection_fee = SectionConnectionFee(tickets[t])
        /\ RoundedApart(tickets[t])

\* The section has a connection fee of 1.50 and the ticket of the worked
\* example costs 22.00 + 5.50 + 1.50.
C30_Witness ==
    /\ epc = "returned"
    /\ axsResults \in ConnectionScenarios
    /\ Len(tickets) = 1
    /\ tickets[1].face_price = 2200
    /\ tickets[1].taxed_cost = 550
    /\ tickets[1].cost = 2900

(***************************************************************************)
(* C31: the captcha gate and the refresh recovery leave the capture state  *)
(* alone.  No step of scrapeAxsTickets taken from the gate (attempt start, *)
(* attempt failure, blocking-modal check, reload, solved exit) or from the *)
(* refresh recovery changes a found flag, capturedResponses or the         *)
(* completion signal; in every step found flags only go from false to      *)
(* true, no key of capturedResponses is removed and the signal is not      *)
(* re-armed; and a target that is found has its key in capturedResponses.  *)
(***************************************************************************)
GatePcs == {"goto", "captchaWait", "modalCheck", "reload"}

RefreshPcs == {"headerWait", "refreshModal", "refreshPrimary",
               "refreshByText", "refreshReload"}

FoundHasKey == \A k \in Keys : found[k] => capturedResponses[k] # "absent"

CaptureOnlyGrows ==
    /\ \A k \in Keys : found[k] => found'[k]
    /\ \A k \in Keys :
          capturedResponses[k] # "absent" => capturedResponses'[k] # "absent"
    /\ allResponsesCaptured => allResponsesCaptured'

GateStepKeepsCapture ==
    (pc \in GatePcs \cup RefreshPcs /\ pc' # pc)
        => UNCHANGED << found, capturedResponses, allResponsesCaptured >>

C31_GateLeavesCapture ==
    /\ []FoundHasKey
    /\ [][CaptureOnlyGrows /\ GateStepKeepsCapture]_vars

\* A run that went through a failed attempt, a reload and the refresh
\* recovery with part of the targets captured before the gate resolved.
C31_Witness ==
    /\ pc = "capture2"
    /\ captchaRetries > 0
    /\ refreshLog # << >>
    /\ \E k \in Keys : found[k]
    /\ \E k \in Keys : ~found[k]

(***************************************************************************)
(* C32: a failure of page.goto makes scrapeAxsTickets fail with            *)
(* DataCaptureError without a captcha attempt, a capture wait or a call of *)
(* parseAXSTickets; an error thrown by parseAXSTickets makes it fail with  *)
(* DataCaptureError; and in both cases browser.close has been called by    *)
(* the time the error reaches the caller.                                  *)
(***************************************************************************)
C32_NavigationAndParseFailure ==
    /\ errMsg = "navigation" =>
          /\ err = "DataCaptureError"
          /\ pc \in {"catch"} \cup TeardownPcs
          /\ attempts = 0
          /\ phase.name = "navigation"
          /\ lastOp.op = "goto"
          /\ pricingCalls = 0
    /\ errMsg = "parse" =>
          /\ err = "DataCaptureError"
          /\ pc \in {"catch"} \cup TeardownPcs
          /\ pricingCalls = 1
          /\ allResponsesCaptured
    /\ (errMsg \in {"navigation", "parse"} /\ pc = "done") =>
          /\ result = "thrown"
          /\ Count(closeLog, "browser") >= 1

\* parseAXSTickets threw on a completed capture and the run is over.
C32_Witness ==
    /\ pc = "done"
    /\ errMsg = "parse"
    /\ result = "thrown"
    /\ closeLog # << >>

(***************************************************************************)
(* C33: every wait of scrapeAxsTickets is raced against a deadline, so     *)
(* every run terminates (returns the tickets or throws, after teardown)    *)
(* provided timers fire, even if a page or browser operation never         *)
(* settles.                                                                *)
(***************************************************************************)
C33_EveryRunTerminates == <>(pc = "done")

(***************************************************************************)
(* C34: once the blocking-modal check of the refresh recovery has run with *)
(* the 'Oh no!' modal on the page, the run is in its teardown with no      *)
(* refresh strategy carried out and no second capture wait started, and    *)
(* unless the page query itself threw, the error is ScraperBlockedError    *)
(* (not rewrapped), which is what the caller gets.                         *)
(***************************************************************************)
RefreshCheckRan ==
    /\ lastOp.op = "modalCheck"
    /\ lastOp.phase = "refresh"
    /\ pc # "refreshModal"

C34_BlockedInRefresh ==
    (RefreshCheckRan /\ modal = "blocked") =>
        /\ pc \in TeardownPcs
        /\ refreshLog = << >>
        /\ finalTimeout = 0
        /\ errMsg # "captureFailed" =>
              /\ err = "ScraperBlockedError"
              /\ errMsg = "blocked"
              /\ blockedLog = "refresh"
        /\ pc = "done" => result = "thrown"

\* The blocking modal was detected in the refresh recovery and the run has
\* ended with ScraperBlockedError.
C34_Witness ==
    /\ pc = "done"
    /\ RefreshCheckRan
    /\ modal = "blocked"
    /\ err = "ScraperBlockedError"
    /\ result = "thrown"

(***************************************************************************)
(* C35: a captcha attempt ends as solved, and the run goes on to the data  *)
(* capture, only because a pre-flow request was observed or a              *)
(* Captcha.solveFinished event was received; a failure to set up the       *)
(* captcha listener never resolves the race.                               *)
(***************************************************************************)
C35_SolvedOnlyByEvents ==
    /\ solvedBy \in {"none", "preFlow", "solveFinished"}
    /\ phase.name \in {"capture", "refresh"}
          => solvedBy \in {"preFlow", "solveFinished"}

(***************************************************************************)
(* C36: every remote browser connection that gets established is closed:   *)
(* a finished run that had a connection, the one it used or one whose      *)
(* puppeteer.connect settled after the 15 s timer had won the race, has    *)
(* called browser.close on it.                                             *)
(***************************************************************************)
C36_ConnectionsClosed ==
    /\ (pc = "done" /\ Connected) => Count(closeLog, "browser") >= 1
    /\ (pc = "done" /\ lateConnect = "established")
          => Count(closeLog, "browser") >= 1

(***************************************************************************)
(* C37: a section/row in which some indexed price level has two eligible   *)
(* seats with consecutive numbers gets a ticket, and no section/row gets   *)
(* more than one ticket.                                                   *)
(***************************************************************************)
\* The section/rows (by labels) that have an eligible seat.
EligibleRows == {<< i.sectionLabel, i.rowLabel >> : i \in Eligible}

\* Two eligible seats of the level in the section/row are neighbours.
HasPair(section, row, level) ==
    \E x, y \in EligibleAt(section, row, level) :
        parseInt(y.number) = parseInt(x.number) + 1

HasTicket(section, row) ==
    \E t \in 1..Len(tickets) :
        tickets[t].section = section /\ tickets[t].row = row

AtMostOneTicket ==
    \A t, u \in 1..Len(tickets) :
        (tickets[t].section = tickets[u].section
         /\ tickets[t].row = tickets[u].row) => t = u

\* As stated: any indexed price level with a pair of neighbours.
C37_TicketForEveryPair ==
    /\ AtMostOneTicket
    /\ epc = "returned" =>
          \A r \in EligibleRows :
              (\E l \in Indexed : HasPair(r[1], r[2], l))
                  => HasTicket(r[1], r[2])

\* The levels the selection can end on: indexed, with the most eligible
\* seats in the section/row and, among those, the lowest display total.
TopLevels(section, row) ==
    LET at(l) == EligibleAt(section, row, l)
        n(l) == Cardinality(at(l))
        most == {l \in Indexed : n(l) > 0 /\ \A m \in Indexed : n(m) <= n(l)}
    IN  {l \in most : \A m \in most :
            DisplayTotal(at(l), l) <= DisplayTotal(at(m), m)}

\* C37 as the program has it: the pair of neighbours has to be among the
\* seats of the selected price level (the indexed level with the most
\* eligible seats in the section/row, a tie going to the lower mean
\* display price); then the section/row gets a ticket; and no section/row
\* gets more than one.
C37_TicketForSelectedLevel ==
    /\ AtMostOneTicket
    /\ epc = "returned" =>
          \A r \in EligibleRows :
              (/\ TopLevels(r[1], r[2]) # {}
               /\ \A l \in TopLevels(r[1], r[2]) : HasPair(r[1], r[2], l))
                  => HasTicket(r[1], r[2])

\* Row A has seats of both price levels, the level with more seats has
\* two neighbours, and the row got its ticket (as did row B).
C37_Witness ==
    /\ epc = "returned"
    /\ axsResults \in SeatScenarios
    /\ EligibleAt("101", "A", "PL2") # {}
    /\ TopLevels("101", "A") = {"PL1"}
    /\ HasPair("101", "A", "PL1")
    /\ HasTicket("101", "A")
    /\ HasTicket("101", "B")

(***************************************************************************)
(* C38: the face_price and isDynamicPricing a ticket reports are those of  *)
(* every seat listed in it: for each seat of the group,                    *)
(* calculateSeatPricing yields a basePrice + facilityFee equal to the      *)
(* ticket's face_price and the ticket's isDynamicPricing.                  *)
(***************************************************************************)
\* The eligible item of the ticket's section/row with the given number.
SeatItem(ticket, number) ==
    CHOOSE i \in Eligible : /\ i.sectionLabel = ticket.section
                            /\ i.rowLabel = ticket.row
                            /\ parseInt(i.number) = number

\* The ticket reports the pricing of the seat of that number.
PricedAs(ticket, number) ==
    LET i == SeatItem(ticket, number)
        p == calculateSeatPricing(priceLevelsMap[i.priceLevelID],
                                  i.sectionID, i.rowID, i.id)
    IN  /\ Cents(ticket.face_price) = Plus(p.basePrice, p.facilityFee)
        /\ ticket.isDynamicPricing = p.isDynamicPricing

\* As stated: of every seat listed.
C38_PricingOfEverySeat ==
    \A t \in 1..Len(tickets) :
        LET numbers == SeatNumbersOf(tickets[t].seats)
        IN  \A n \in 1..Len(numbers) : PricedAs(tickets[t], numbers[n])

\* C38 as the program has it: the face_price and isDynamicPricing of a
\* ticket are those calculateSeatPricing yields for the first seat listed
\* in it, the representative seat.
C38_PricingOfFirstSeat ==
    \A t \in 1..Len(tickets) :
        PricedAs(tickets[t], SeatNumbersOf(tickets[t].seats)[1])

\* Seat 11 has an override of 25.00 and seat 10 has none: the ticket for
\* the seats 10 to 13 reports the static face price of seat 10.
C38_Witness ==
    /\ axsResults \in DynamicScenarios
    /\ epc = "returned"
    /\ KeyOfSeat(10) \notin DOMAIN TheOverrides
    /\ KeyOfSeat(11) \in DOMAIN TheOverrides
    /\ TheLevel.priceTypeID = "PT1"
    /\ Len(tickets) = 1
    /\ SeatNumbersOf(tickets[1].seats) = << 10, 11, 12, 13 >>
    /\ tickets[1].face_price = 2200
    /\ ~tickets[1].isDynamicPricing
    /\ calculateSeatPricing(TheLevel, "S1", "R1", 11).isDynamicPricing

(***************************************************************************)
(* C39: no ticket lists a seat whose statusCodeLabel is other than         *)
(* "Available", and no such seat is among the seats collected for the      *)
(* seat counts of the price levels and for the runs of consecutive seats.  *)
(***************************************************************************)
\* The offered item with the given seat id is available.
AvailableSeat(seatId) ==
    \A y \in OfferedItems :
        y.item.id = seatId => y.item.statusCodeLabel = << "Available" >>

C39_OnlyAvailableSeats ==
    /\ \A t \in 1..Len(tickets) : \A i \in 1..Len(tickets[t].seatIds) :
          AvailableSeat(tickets[t].seatIds[i])
    /\ \A g \in 1..Len(sectionRowPriceSeats) :
          \A k \in 1..Len(sectionRowPriceSeats[g].seats) :
              AvailableSeat(sectionRowPriceSeats[g].seats[k].seatId)

====
